---- MODULE Spec2Model ----
(***************************************************************************)
(* Verification model of resume-robot.                                     *)
(*                                                                         *)
(*   SpecLLM    the backend LLM provider selection (LLMService._get_api_key*)
(*              and chat_completion, as documented in LLM 调用机制说明).    *)
(*   SpecWeb    the Axios clients of the two SPAs (tenant: services/api.ts,*)
(*              platform admin: its api.ts): interceptors, token refresh,  *)
(*              401/403 handling.                                          *)
(*   SpecAuth   the shells of the two SPAs: auth stores, route guards,     *)
(*              login, logout and the change of the password.              *)
(*   SpecJob    the job pages (JobCreate, JobList, JobDetail).             *)
(*   SpecMatch  the match list (MatchList).                                *)
(*   SpecDept   the department page (DepartmentList).                      *)
(*   SpecCfg    the personal LLM settings of a user.                       *)
(*   SpecPage   the paged lists and the total they report to the table.    *)
(*   SpecRule   the filter rule page (FilterRulesSimple).                  *)
(*   SpecExport ExportService.batchExportReports.                          *)
(*   SpecWebFair is SpecWeb with the token refresh eventually starting and *)
(*              settling; SpecAuthOneTab is SpecAuth with a single tab.    *)
(***************************************************************************)
EXTENDS Integers, Sequences, FiniteSets, TLC

(***************************************************************************)
(* Bounds of the model.                                                    *)
(***************************************************************************)
\* longest system API key string that is enumerated
MaxKeyLen == 1

\* number of requests that can be outstanding at once in one SPA
MaxReq == 2

\* the clock advances in steps of TickSeconds up to MaxNow (seconds)
TickSeconds == 150

MaxNow == 150

\* lifetime, in seconds, of the access tokens the backend issues
TokenLife == 300

\* number of job positions of the tenant
MaxJobs == 2

\* number of resume-job matches of the tenant
MaxMatches == 2

\* number of departments of the tenant
MaxDepts == 3

\* number of different API keys the user types into the LLM settings form
MaxTyped == 2

\* largest page size the size changer of a list offers
MaxPageSize == 3

\* largest number of rows the backend holds for a list query
MaxRows == 6

\* longest text typed into the skills field of the filter rule form
MaxSkillsLen == 3

\* largest number of reports handed to batchExportReports
MaxReports == 3

(***************************************************************************)
(* LLM provider selection: constants and pure helpers.                     *)
(***************************************************************************)
\* _provider_configs, in dictionary order
ProviderOrder == <<"deepseek", "doubao">>

Providers == {ProviderOrder[i] : i \in 1..Len(ProviderOrder)}

\* LLMService.__init__(provider="deepseek")
DefaultProvider == "deepseek"

\* Python None for a setting that is not stored
NoneKey == <<"None">>

\* characters of a key string: a blank and a non-blank one
KeyChars == {" ", "k"}

KeyStrings == UNION {[1..n -> KeyChars] : n \in 0..MaxKeyLen}

\* what config_service.get_setting can return for <prefix>.api_key
KeyValues == KeyStrings \cup {NoneKey}

\* the personal configuration of a user: none, or one record (provider, key)
NoUserConfig == [provider |-> "none", api_key |-> <<>>]

UserConfigs == {NoUserConfig} \cup [provider : Providers, api_key : {<<>>, <<"u">>}]

RECURSIVE LStrip(_)
LStrip(s) == IF s # <<>> /\ Head(s) = " " THEN LStrip(Tail(s)) ELSE s

RECURSIVE RStrip(_)
RStrip(s) == IF s # <<>> /\ s[Len(s)] = " " THEN RStrip(SubSeq(s, 1, Len(s) - 1)) ELSE s

\* str.strip()
Strip(s) == RStrip(LStrip(s))

\* Python truthiness of an Optional[str]
Truthy(s) == s # NoneKey /\ Len(s) > 0

HasUsableKeyNoStrip(k) == Truthy(k)

\* `fallback_api_key and fallback_api_key.strip()`
HasUsableKey(k) == Truthy(k) /\ Truthy(Strip(k))

\* _is_provider_enabled: llm.<provider>.enabled
IsProviderEnabled(en, p) == en[p]

UserConfigIgnored(u, en) == FALSE

UserConfigExists(u, en) == u.provider # "none"

\* has_user_config: a personal configuration with a non-empty key whose
\* provider is not administratively disabled
HasUserConfig(u, en) ==
    /\ u.provider # "none"
    /\ u.api_key # <<>>
    /\ IsProviderEnabled(en, u.provider)

\* _get_provider: the user's provider first, else the service's provider
CurrentProvider(u, en, self) == IF HasUserConfig(u, en) THEN u.provider ELSE self

RECURSIVE FallbackScanNoEnabledCheck(_, _, _, _)
FallbackScanNoEnabledCheck(current, en, keys, i) ==
    IF i > Len(ProviderOrder) THEN "none"
    ELSE LET provider_name == ProviderOrder[i]
         IN  IF provider_name = current
             THEN FallbackScanNoEnabledCheck(current, en, keys, i + 1)
             ELSE IF HasUsableKey(keys[provider_name])
             THEN provider_name
             ELSE FallbackScanNoEnabledCheck(current, en, keys, i + 1)

\* the fallback loop over _provider_configs.items(), from position i:
\* the first provider other than the current one that is enabled and keyed
RECURSIVE FallbackScan(_, _, _, _)
FallbackScan(current, en, keys, i) ==
    IF i > Len(ProviderOrder) THEN "none"
    ELSE LET provider_name == ProviderOrder[i]
         IN  IF provider_name = current
             THEN FallbackScan(current, en, keys, i + 1)
             ELSE IF ~IsProviderEnabled(en, provider_name)
             THEN FallbackScan(current, en, keys, i + 1)
             ELSE IF HasUsableKey(keys[provider_name])
             THEN provider_name
             ELSE FallbackScan(current, en, keys, i + 1)

GetApiKeyNoError(u, en, keys, self) ==
    LET has_user_config == HasUserConfig(u, en)
        current_provider == CurrentProvider(u, en, self)
        fb == FallbackScan(current_provider, en, keys, 1)
    IN  IF has_user_config
        THEN [provider |-> current_provider, api_key |-> u.api_key, self |-> self]
        ELSE IF IsProviderEnabled(en, current_provider) /\ HasUsableKey(keys[current_provider])
        THEN [provider |-> current_provider, api_key |-> keys[current_provider], self |-> self]
        ELSE IF fb # "none"
        THEN [provider |-> fb, api_key |-> keys[fb], self |-> fb]
        ELSE [provider |-> current_provider, api_key |-> keys[current_provider], self |-> self]

\* _get_api_key: the provider and key of this call and the service's
\* provider afterwards (self.provider); provider "none" is the raised error
GetApiKey(u, en, keys, self) ==
    LET has_user_config == HasUserConfig(u, en)
        current_provider == CurrentProvider(u, en, self)
        current_provider_enabled == IsProviderEnabled(en, current_provider)
        current_provider_has_key == HasUsableKey(keys[current_provider])
        fb == FallbackScan(current_provider, en, keys, 1)
    IN  IF has_user_config
        THEN [provider |-> current_provider, api_key |-> u.api_key, self |-> self]
        ELSE IF current_provider_enabled /\ current_provider_has_key
        THEN [provider |-> current_provider, api_key |-> keys[current_provider], self |-> self]
        ELSE IF fb # "none"
        THEN [provider |-> fb, api_key |-> keys[fb], self |-> fb]
        ELSE [provider |-> "none", api_key |-> NoneKey, self |-> self]

(***************************************************************************)
(* The SPAs' API clients: constants and pure helpers.                      *)
(***************************************************************************)
ReqIds == 1..MaxReq

\* localStorage.getItem(...) === null
NoToken == <<>>

\* a stored token that is not a parsable JWT
BadToken == <<"bad">>

\* a JWT whose payload has exp = e
Jwt(e) == <<"jwt", e>>

\* remainingSeconds < 300
ExpiringThreshold == 300

IsTokenExpiringSoonInclusive(token, t) ==
    IF token = BadToken THEN TRUE ELSE token[2] - t <= ExpiringThreshold

\* isTokenExpiringSoon(token), at time t
IsTokenExpiringSoon(token, t) ==
    IF token = BadToken THEN TRUE ELSE token[2] - t < ExpiringThreshold

\* how a call of authStore.refreshToken() can settle: true with a new
\* access_token stored, true with no access_token in localStorage, false,
\* or a rejection
RefreshOutcomes == {"ok", "noToken", "false", "throw"}

LoginNotExempted(q) == FALSE

\* originalRequest.url.includes('/auth/login')
IsLoginRequest(q) == q.kind = "login"

\* originalRequest.url.includes('/auth/refresh')
IsRefreshRequest(q) == q.kind = "refresh"

IsUnauthorizedOrForbidden(status) == status \in {401, 403}

\* error.response?.status === 401
IsUnauthorized(status) == status = 401

\* error.response?.status === 403
IsForbidden(status) == status = 403

NeverRetried(q) == FALSE

\* originalRequest._retry
AlreadyRetried(q) == q.retry

KeepCredentials(s) == s

RemoveOnlyToken(s) == [s EXCEPT !.access_token = NoToken]

\* tenant SPA: removeItem access_token, user, tenant_id
ClearCredentials(s) ==
    [s EXCEPT !.access_token = NoToken, !.user = FALSE, !.tenant_id = FALSE]

\* admin console: removeItem admin_access_token, admin_user
AdminClearCredentials(s) ==
    [s EXCEPT !.admin_access_token = NoToken, !.admin_user = FALSE]

\* no user object (null)
NoUser == [role |-> "none", user_type |-> "none"]

EmptyStorage ==
    [access_token |-> NoToken, user |-> FALSE, tenant_id |-> FALSE,
     admin_access_token |-> NoToken, admin_user |-> FALSE]

\* a request slot that holds no request
IdleReq ==
    [pc |-> "idle", kind |-> "api", retry |-> FALSE, sends |-> 0,
     auth |-> NoToken, status |-> 0, awaits |-> 0, refreshes |-> 0,
     toast |-> FALSE]

(***************************************************************************)
(* State.                                                                  *)
(***************************************************************************)
VARIABLES
    enabled,        \* llm.<provider>.enabled, per provider
    sysKey,         \* llm.<provider>.api_key, per provider
    userCfg,        \* the requesting user's UserLLMConfig row
    selfProvider,   \* LLMService.provider
    llmPc,          \* position of the chat_completion call
    llmProvider,    \* provider chosen for the call ("none": none)
    llmKey,         \* key chosen for the call
    llmInFlight,    \* providers with a request of this call outstanding
    llmInvoked,     \* providers whose endpoint this call has invoked, in order
    llmSeen,        \* the configuration the call read when it selected
    app,            \* the SPA that runs: "tenant", "admin" ("none": neither)
    ls,             \* the browser's localStorage
    location,       \* window.location / the router's path
    navPending,     \* window.location.href was assigned: the page will reload
    now,            \* Date.now() / 1000
    refreshTokenPromise,  \* api.ts: 0 is null, else the request that started it
    guardPending,   \* requests whose refresh (request interceptor) is in flight
    req             \* the requests made through the api instance

llmVars == <<enabled, sysKey, userCfg, selfProvider, llmPc, llmProvider,
             llmKey, llmInFlight, llmInvoked, llmSeen>>

webVars == <<app, ls, location, navPending, now, refreshTokenPromise,
             guardPending, req>>

\* a key string with a non-blank character
NonBlank(k) == k # NoneKey /\ \E i \in 1..Len(k) : k[i] # " "

\* providers that are enabled and have a non-blank system key
UsableProviders == {p \in Providers : enabled[p] /\ NonBlank(sysKey[p])}

NoSeen == [hasCfg |-> FALSE, userOk |-> FALSE, userProvider |-> "none",
           current |-> "none", usable |-> {}]

\* what the call reads of the configuration at selection time
Snapshot ==
    [hasCfg |-> userCfg.provider # "none",
     userOk |-> /\ userCfg.provider # "none"
                /\ userCfg.api_key # <<>>
                /\ enabled[userCfg.provider],
     userProvider |-> userCfg.provider,
     current |-> selfProvider,
     usable |-> UsableProviders]

LLMIdle ==
    /\ llmPc = "idle"
    /\ llmProvider = "none"
    /\ llmKey = NoneKey
    /\ llmInFlight = {}
    /\ llmInvoked = <<>>
    /\ llmSeen = NoSeen

\* no SPA runs
WebOff ==
    /\ app = "none"
    /\ ls = EmptyStorage
    /\ location = "/"
    /\ navPending = FALSE
    /\ now = 0
    /\ refreshTokenPromise = 0
    /\ guardPending = {}
    /\ req = [r \in ReqIds |-> IdleReq]

\* the backend is not part of the model of the SPAs: one fixed configuration
LLMOff ==
    /\ enabled = [p \in Providers |-> TRUE]
    /\ sysKey = [p \in Providers |-> NoneKey]
    /\ userCfg = NoUserConfig
    /\ selfProvider = DefaultProvider
    /\ LLMIdle

(***************************************************************************)
(* State of the SPA shell: the auth store, the App component and the       *)
(* pages that log in, log out and change the password.  It shares app, ls, *)
(* location and navPending with the API client.                            *)
(***************************************************************************)
VARIABLES
    store,          \* useAuthStore: user, isAuthenticated, isLoading, error
    authChecked,    \* App: the authChecked state
    screen,         \* what App renders: "loading" or the path of the page
    asked,          \* the path the user last asked for
    checkPc,        \* initAuth / checkAuth: "start", "pending", "idle"
    loginPc,        \* store.login: "idle", "pending"
    loginNav,       \* Login.onFinish: the setTimeout(navigate) is pending
    pwPc,           \* ChangePassword.handleSubmit: "idle", "pending", "timer"
    relogin         \* password changed: "no", "cleared", "navigated"

authVars == <<store, authChecked, screen, asked, checkPc, loginPc, loginNav,
              pwPc, relogin>>

\* the variables of the browser the shell shares with the API client
browserVars == <<app, ls, location, navPending>>

\* the variables of the API client alone
clientVars == <<now, refreshTokenPromise, guardPending, req>>

\* the store as created: nobody is logged in
InitialStore ==
    [user |-> NoUser, isAuthenticated |-> FALSE, isLoading |-> FALSE,
     error |-> "none"]

\* the SPA shell is not part of the model
AuthOff ==
    /\ store = InitialStore
    /\ authChecked = FALSE
    /\ screen = "loading"
    /\ asked = "/"
    /\ checkPc = "idle"
    /\ loginPc = "idle"
    /\ loginNav = FALSE
    /\ pwPc = "idle"
    /\ relogin = "no"

(***************************************************************************)
(* State of the job pages: the job positions kept by the backend and what  *)
(* the pages JobList and JobDetail hold of them.                           *)
(***************************************************************************)
VARIABLES
    jobs,           \* backend: status of each job position ("none": no such job)
    profiled,       \* backend: the jobs that have a parsed profile
    listJobs,       \* JobList: the status of each job in `jobs` as last loaded
    detailJob       \* JobDetail: the job loaded into the form, NoJob if none

jobVars == <<jobs, profiled, listJobs, detailJob>>

JobIds == 1..MaxJobs

\* JobDetail holds no job
NoJob == [id |-> 0, status |-> "none"]

\* the job pages are not part of the model
JobOff ==
    /\ jobs = [j \in JobIds |-> "none"]
    /\ profiled = {}
    /\ listJobs = [j \in JobIds |-> "none"]
    /\ detailJob = NoJob

(***************************************************************************)
(* State of the match list: the matches kept by the backend and the rows   *)
(* each open MatchList page holds.                                         *)
(***************************************************************************)
VARIABLES
    matches,        \* backend: status of each match ("none": no such match)
    listMatches     \* MatchList: per open page, the statuses as last loaded

matchVars == <<matches, listMatches>>

MatchIds == 1..MaxMatches

\* the MatchList pages that are open (two users, or two tabs)
MatchLists == {"first", "second"}

\* the match list is not part of the model
MatchOff ==
    /\ matches = [m \in MatchIds |-> "none"]
    /\ listMatches = [t \in MatchLists |-> [m \in MatchIds |-> "none"]]

(***************************************************************************)
(* State of the department page: the departments kept by the backend and   *)
(* the list DepartmentList holds.                                          *)
(***************************************************************************)
VARIABLES
    parentOf,       \* backend: parent_id of each department (NoParent: null,
                    \* NoDept: no such department)
    departments     \* DepartmentList, per open page: ids and parent_id as
                    \* last fetched

deptVars == <<parentOf, departments>>

DeptIds == 1..MaxDepts

\* the department pages open in the tenant (two administrators)
DeptPages == {"first", "second"}

\* parent_id is null
NoParent == 0

\* there is no department with this id
NoDept == -1

\* the department page is not part of the model
DeptOff ==
    /\ parentOf = [d \in DeptIds |-> NoDept]
    /\ departments = [t \in DeptPages |-> [d \in DeptIds |-> NoDept]]

(***************************************************************************)
(* State of the personal LLM settings: the UserLLMConfig rows of the user  *)
(* and the form of the Settings page.                                      *)
(***************************************************************************)
VARIABLES
    userLLMConfig,  \* backend: the UserLLMConfig rows of the user
    llmForm,        \* Settings page: the values of llmForm
    saved           \* history: the providers saved so far and the last one

cfgVars == <<userLLMConfig, llmForm, saved>>

\* the options of the provider Select of the form
FormProviders == {"deepseek", "doubao", "qwen"}

\* the empty string
EmptyKey == << >>

\* the form before loadLLMConfig has filled it
EmptyForm == [provider |-> "none", api_key |-> EmptyKey,
              base_url |-> "none", model_name |-> "none"]

\* the personal LLM settings are not part of the model
CfgOff ==
    /\ userLLMConfig = {}
    /\ llmForm = EmptyForm
    /\ saved = [all |-> {}, last |-> "none"]

(***************************************************************************)
(* State of a paged list: the rows the backend holds for the query and     *)
(* the paging state of the page that shows them.                           *)
(***************************************************************************)
VARIABLES
    pager           \* list, rows held by the backend, page, pageSize,
                    \* rows shown (items), total, whether a page was loaded

pageVars == <<pager>>

\* no list is shown
NoPager == [list |-> "none", rows |-> 0, page |-> 1, pageSize |-> 1,
            items |-> 0, total |-> 0, loaded |-> FALSE]

\* the paged lists are not part of the model
PageOff == pager = NoPager

(***************************************************************************)
(* State of the filter rule page (FilterRulesSimple): the stored rule and  *)
(* the edit form.                                                          *)
(***************************************************************************)
VARIABLES
    rule,           \* backend: the filter rule (rule_type, rule_config)
    editingRule,    \* FilterRulesSimple: a rule is open in the edit form
    ruleType,       \* FilterRulesSimple: ruleType
    ruleForm        \* FilterRulesSimple: the values of the form

ruleVars == <<rule, editingRule, ruleType, ruleForm>>

\* a text field that is undefined
NoText == <<"undefined">>

\* config.skills is undefined
NoSkills == <<NoText>>

\* a rule_config with no key: {}
NoRuleConfig ==
    [degree |-> "undefined", operator |-> "undefined", years |-> -1,
     min_age |-> -1, max_age |-> -1, skills |-> NoSkills,
     match_type |-> "undefined", custom |-> "undefined"]

\* there is no filter rule
NoRule == [rule_type |-> "none", rule_config |-> NoRuleConfig]

\* the form after form.resetFields()
ResetForm ==
    [degree |-> "undefined", operator |-> ">=", years |-> -1, min_age |-> -1,
     max_age |-> -1, skills |-> NoText, match_type |-> "any"]

\* the filter rule page is not part of the model
RuleOff ==
    /\ rule = NoRule
    /\ editingRule = FALSE
    /\ ruleType = "education"
    /\ ruleForm = ResetForm

(***************************************************************************)
(* State of one call of ExportService.batchExportReports.                  *)
(***************************************************************************)
VARIABLES
    reports,        \* the argument of batchExportReports (match ids)
    exportPhase,    \* "idle", "posting", "resolved" or "rejected"
    exportPos,      \* position of the loop in reports (0: not started)
    posted,         \* POST /export/report-word requests sent, in order
    downloaded,     \* reports whose file was handed to the browser, in order
    thrown          \* the report whose error reached the caller (0: none)

exportVars == <<reports, exportPhase, exportPos, posted, downloaded, thrown>>

\* batchExportReports is not part of the model
ExportOff ==
    /\ reports = << >>
    /\ exportPhase = "idle"
    /\ exportPos = 0
    /\ posted = << >>
    /\ downloaded = << >>
    /\ thrown = 0

vars == <<llmVars, webVars, authVars, jobVars, matchVars, deptVars,
    cfgVars, pageVars, ruleVars, exportVars>>

\* what the actions of one part of the model leave alone
nonLLMVars == <<webVars, authVars, jobVars, matchVars, deptVars, cfgVars,
    pageVars, ruleVars, exportVars>>

nonWebVars == <<llmVars, authVars, jobVars, matchVars, deptVars, cfgVars,
    pageVars, ruleVars, exportVars>>

nonAuthVars == <<llmVars, clientVars, jobVars, matchVars, deptVars,
    cfgVars, pageVars, ruleVars, exportVars>>

nonJobVars == <<llmVars, webVars, authVars, matchVars, deptVars, cfgVars,
    pageVars, ruleVars, exportVars>>

nonMatchVars == <<llmVars, webVars, authVars, jobVars, deptVars, cfgVars,
    pageVars, ruleVars, exportVars>>

nonDeptVars == <<llmVars, webVars, authVars, jobVars, matchVars, cfgVars,
    pageVars, ruleVars, exportVars>>

nonCfgVars == <<llmVars, webVars, authVars, jobVars, matchVars, deptVars,
    pageVars, ruleVars, exportVars>>

nonPageVars == <<llmVars, webVars, authVars, jobVars, matchVars, deptVars,
    cfgVars, ruleVars, exportVars>>

nonRuleVars == <<llmVars, webVars, authVars, jobVars, matchVars, deptVars,
    cfgVars, pageVars, exportVars>>

nonExportVars == <<llmVars, webVars, authVars, jobVars, matchVars,
    deptVars, cfgVars, pageVars, ruleVars>>

\* the other parts of the model are at rest
NonLLMOff == WebOff /\ AuthOff /\ JobOff /\ MatchOff /\ DeptOff /\
    CfgOff /\ PageOff /\ RuleOff /\ ExportOff

NonWebOff == LLMOff /\ AuthOff /\ JobOff /\ MatchOff /\ DeptOff /\
    CfgOff /\ PageOff /\ RuleOff /\ ExportOff

NonAuthOff == LLMOff /\ JobOff /\ MatchOff /\ DeptOff /\ CfgOff /\
    PageOff /\ RuleOff /\ ExportOff

NonJobOff == LLMOff /\ WebOff /\ AuthOff /\ MatchOff /\ DeptOff /\
    CfgOff /\ PageOff /\ RuleOff /\ ExportOff

NonMatchOff == LLMOff /\ WebOff /\ AuthOff /\ JobOff /\ DeptOff /\
    CfgOff /\ PageOff /\ RuleOff /\ ExportOff

NonDeptOff == LLMOff /\ WebOff /\ AuthOff /\ JobOff /\ MatchOff /\
    CfgOff /\ PageOff /\ RuleOff /\ ExportOff

NonCfgOff == LLMOff /\ WebOff /\ AuthOff /\ JobOff /\ MatchOff /\
    DeptOff /\ PageOff /\ RuleOff /\ ExportOff

NonPageOff == LLMOff /\ WebOff /\ AuthOff /\ JobOff /\ MatchOff /\
    DeptOff /\ CfgOff /\ RuleOff /\ ExportOff

NonRuleOff == LLMOff /\ WebOff /\ AuthOff /\ JobOff /\ MatchOff /\
    DeptOff /\ CfgOff /\ PageOff /\ ExportOff

NonExportOff == LLMOff /\ WebOff /\ AuthOff /\ JobOff /\ MatchOff /\
    DeptOff /\ CfgOff /\ PageOff /\ RuleOff

InitLLM ==
    /\ enabled \in [Providers -> BOOLEAN]
    /\ sysKey \in [Providers -> KeyValues]
    /\ userCfg \in UserConfigs
    /\ selfProvider = DefaultProvider
    /\ LLMIdle
    /\ NonLLMOff

(***************************************************************************)
(* Actions of the LLM service and of its configuration.                    *)
(***************************************************************************)
\* the administrator switches a provider on or off
AdminSetEnabled(p, b) ==
    /\ enabled[p] # b
    /\ enabled' = [enabled EXCEPT ![p] = b]
    /\ UNCHANGED <<sysKey, userCfg, selfProvider, llmPc, llmProvider, llmKey,
                   llmInFlight, llmInvoked, llmSeen>>
    /\ UNCHANGED nonLLMVars

\* the administrator stores or removes a provider's system key
AdminSetApiKey(p, k) ==
    /\ sysKey[p] # k
    /\ sysKey' = [sysKey EXCEPT ![p] = k]
    /\ UNCHANGED <<enabled, userCfg, selfProvider, llmPc, llmProvider, llmKey,
                   llmInFlight, llmInvoked, llmSeen>>
    /\ UNCHANGED nonLLMVars

\* the user saves (or deletes) the personal configuration: one row per user
SaveUserConfig(c) ==
    /\ userCfg # c
    /\ userCfg' = c
    /\ UNCHANGED <<enabled, sysKey, selfProvider, llmPc, llmProvider, llmKey,
                   llmInFlight, llmInvoked, llmSeen>>
    /\ UNCHANGED nonLLMVars

\* chat_completion starts: _get_api_key selects, then the one request is sent
ChatCompletion ==
    /\ llmPc = "idle"
    /\ LET r == GetApiKey(userCfg, enabled, sysKey, selfProvider)
       IN  /\ selfProvider' = r.self
           /\ llmProvider' = r.provider
           /\ llmKey' = r.api_key
           /\ llmSeen' = Snapshot
           /\ IF r.provider = "none"
              THEN /\ llmPc' = "error"
                   /\ UNCHANGED <<llmInFlight, llmInvoked>>
              ELSE /\ llmPc' = "sent"
                   /\ llmInFlight' = {r.provider}
                   /\ llmInvoked' = Append(llmInvoked, r.provider)
    /\ UNCHANGED <<enabled, sysKey, userCfg>>
    /\ UNCHANGED nonLLMVars

ProviderReplyRetryOther(ok) ==
    /\ llmPc = "sent"
    /\ IF ok \/ FallbackScan(llmProvider, enabled, sysKey, 1) = "none"
       THEN /\ llmPc' = (IF ok THEN "done" ELSE "failed")
            /\ llmInFlight' = {}
            /\ UNCHANGED <<llmProvider, llmInvoked>>
       ELSE LET fb == FallbackScan(llmProvider, enabled, sysKey, 1)
            IN  /\ llmPc' = "sent"
                /\ llmProvider' = fb
                /\ llmInFlight' = {fb}
                /\ llmInvoked' = Append(llmInvoked, fb)
    /\ UNCHANGED <<enabled, sysKey, userCfg, selfProvider, llmKey, llmSeen>>
    /\ UNCHANGED nonLLMVars

\* the provider answers, or the request fails: the call ends either way
ProviderReply(ok) ==
    /\ llmPc = "sent"
    /\ llmPc' = (IF ok THEN "done" ELSE "failed")
    /\ llmInFlight' = {}
    /\ UNCHANGED <<enabled, sysKey, userCfg, selfProvider, llmProvider, llmKey,
                   llmInvoked, llmSeen>>
    /\ UNCHANGED nonLLMVars

\* chat_completion returns or raises to its caller
ChatReturn ==
    /\ llmPc \in {"done", "failed", "error"}
    /\ llmPc' = "idle"
    /\ llmProvider' = "none"
    /\ llmKey' = NoneKey
    /\ llmInFlight' = {}
    /\ llmInvoked' = <<>>
    /\ llmSeen' = NoSeen
    /\ UNCHANGED <<enabled, sysKey, userCfg, selfProvider>>
    /\ UNCHANGED nonLLMVars

NextLLM ==
    \/ \E p \in Providers, b \in BOOLEAN : AdminSetEnabled(p, b)
    \/ \E p \in Providers, k \in KeyValues : AdminSetApiKey(p, k)
    \/ \E c \in UserConfigs : SaveUserConfig(c)
    \/ ChatCompletion
    \/ \E ok \in BOOLEAN : ProviderReply(ok)
    \/ ChatReturn

SpecLLM == InitLLM /\ [][NextLLM]_vars

(***************************************************************************)
(* The SPAs' API clients: state machine.                                   *)
(*                                                                         *)
(* A request slot r moves through                                          *)
(*   idle -> [import -> awaitRefresh] -> sent                              *)
(*        -> fulfilled | rejected | await401 (-> the interceptor again)    *)
(* where "import" is the `await import(...)` between the test of           *)
(* refreshTokenPromise and its assignment, "awaitRefresh" is               *)
(* `await refreshTokenPromise` and "await401" is the response              *)
(* interceptor's `await useAuthStore.getState().refreshToken()`.  What     *)
(* runs between two awaits runs without interleaving.                      *)
(***************************************************************************)
\* the tokens localStorage can hold when the page loads
StoredTokens == {BadToken, Jwt(TokenLife)}

\* the page loads; localStorage is what earlier sessions left
InitWeb ==
    /\ NonWebOff
    /\ app \in {"tenant", "admin"}
    /\ \/ ls = EmptyStorage
       \/ /\ app = "tenant"
          /\ \E t \in StoredTokens :
                ls = [EmptyStorage EXCEPT !.access_token = t, !.user = TRUE,
                                          !.tenant_id = TRUE]
       \/ /\ app = "admin"
          /\ ls = [EmptyStorage EXCEPT !.admin_access_token = Jwt(TokenLife),
                                       !.admin_user = TRUE]
    /\ location = "/"
    /\ navPending = FALSE
    /\ now = 0
    /\ refreshTokenPromise = 0
    /\ guardPending = {}
    /\ req = [r \in ReqIds |-> IdleReq]

\* calls of authStore.refreshToken() that have not settled
RefreshesInFlight ==
    Cardinality(guardPending) + Cardinality({r \in ReqIds : req[r].pc = "await401"})

\* localStorage after refreshToken() settled with outcome o at time t
StorageAfterRefresh(s, o, t) ==
    CASE o = "ok" -> [s EXCEPT !.access_token = Jwt(t + TokenLife)]
      [] o = "noToken" -> [s EXCEPT !.access_token = NoToken]
      [] OTHER -> s

\* time passes
Tick ==
    /\ app # "none"
    /\ now + TickSeconds <= MaxNow
    /\ now' = now + TickSeconds
    /\ UNCHANGED <<app, ls, location, navPending, refreshTokenPromise,
                   guardPending, req>>
    /\ UNCHANGED nonWebVars

\* the promise of the request settles; its config is of no further use
Settle(q, pc, status) ==
    [q EXCEPT !.pc = pc, !.status = status, !.auth = NoToken, !.awaits = 0,
              !.toast = IsForbidden(status)]

\* the adapter sends the request
Dispatch(q) == [q EXCEPT !.pc = "sent", !.sends = @ + 1]

\* tenant request interceptor, up to its first await or to the dispatch of
\* the request; s is localStorage, p is refreshTokenPromise
RequestInterceptor(q, s, p) ==
    LET token == s.access_token
    IN  IF token # NoToken
        THEN IF IsTokenExpiringSoon(token, now) /\ ~IsRefreshRequest(q)
             THEN IF p = 0
                  THEN [q EXCEPT !.pc = "import"]
                  ELSE [q EXCEPT !.pc = "awaitRefresh", !.awaits = p]
             ELSE Dispatch([q EXCEPT !.auth = token])
        ELSE Dispatch(q)

\* a page of the tenant SPA calls api.get/post/...
Request(r, kind) ==
    /\ app = "tenant"
    /\ req[r].pc = "idle"
    /\ req' = [req EXCEPT ![r] =
                  RequestInterceptor([IdleReq EXCEPT !.kind = kind], ls,
                                     refreshTokenPromise)]
    /\ UNCHANGED <<app, ls, location, navPending, now, refreshTokenPromise,
                   guardPending>>
    /\ UNCHANGED nonWebVars

\* after `await import(...)`: refreshTokenPromise = refreshToken(), the
\* finally-handler is attached, and the request awaits the promise
StartRefresh(r) ==
    /\ app = "tenant"
    /\ req[r].pc = "import"
    /\ refreshTokenPromise' = r
    /\ guardPending' = guardPending \cup {r}
    /\ req' = [req EXCEPT ![r].pc = "awaitRefresh", ![r].awaits = r]
    /\ UNCHANGED <<app, ls, location, navPending, now>>
    /\ UNCHANGED nonWebVars

\* a request that awaited the refresh g resumes after `await refreshTokenPromise`
ResumeAfterRefresh(q, g, o, s) ==
    IF q.pc = "awaitRefresh" /\ q.awaits = g
    THEN IF o = "throw"
         THEN Settle(q, "rejected", 0)
         ELSE Dispatch([q EXCEPT !.awaits = 0,
                                 !.auth = IF s.access_token # NoToken
                                          THEN s.access_token ELSE q.auth])
    ELSE q

FinallyHandlerKeepsPromise(p) == p

\* refreshTokenPromise.finally(() => { refreshTokenPromise = null })
FinallyHandler(p) == 0

\* the refresh started by request g's interceptor settles: the
\* finally-handler resets refreshTokenPromise, the awaiting requests resume
RefreshSettles(g, o) ==
    /\ app = "tenant"
    /\ g \in guardPending
    /\ ls' = StorageAfterRefresh(ls, o, now)
    /\ refreshTokenPromise' = FinallyHandler(refreshTokenPromise)
    /\ guardPending' = guardPending \ {g}
    /\ req' = [r \in ReqIds |-> ResumeAfterRefresh(req[r], g, o, ls')]
    /\ UNCHANGED <<app, location, navPending, now>>
    /\ UNCHANGED nonWebVars

\* admin request interceptor: adds the token; the request is dispatched
AdminRequestInterceptor(q, s) ==
    LET token == s.admin_access_token
    IN  IF token # NoToken
        THEN Dispatch([q EXCEPT !.auth = token])
        ELSE Dispatch(q)

\* a page of the admin console calls api.get/post/...
AdminRequest(r, kind) ==
    /\ app = "admin"
    /\ req[r].pc = "idle"
    /\ req' = [req EXCEPT ![r] =
                  AdminRequestInterceptor([IdleReq EXCEPT !.kind = kind], ls)]
    /\ UNCHANGED <<app, ls, location, navPending, now, refreshTokenPromise,
                   guardPending>>
    /\ UNCHANGED nonWebVars

\* a 2xx response: the response interceptor passes it on
ResponseOk(r) ==
    /\ req[r].pc = "sent"
    /\ req' = [req EXCEPT ![r] = Settle(req[r], "fulfilled", 200)]
    /\ UNCHANGED <<app, ls, location, navPending, now, refreshTokenPromise,
                   guardPending>>
    /\ UNCHANGED nonWebVars

\* tenant response interceptor, error branch, up to its first await or its return
ResponseError(r, status) ==
    /\ app = "tenant"
    /\ req[r].pc = "sent"
    /\ status \in {401, 403, 500}
    /\ IF IsUnauthorized(status) /\ ~IsLoginRequest(req[r]) /\ ~IsRefreshRequest(req[r])
       THEN IF AlreadyRetried(req[r])
            THEN /\ ls' = ClearCredentials(ls)
                 /\ location' = "/login"
                 /\ navPending' = TRUE
                 /\ req' = [req EXCEPT ![r] = Settle(req[r], "rejected", status)]
            ELSE /\ req' = [req EXCEPT ![r].pc = "await401", ![r].retry = TRUE,
                                       ![r].status = status,
                                       ![r].refreshes = @ + 1]
                 /\ UNCHANGED <<ls, location, navPending>>
       ELSE /\ req' = [req EXCEPT ![r] = Settle(req[r], "rejected", status)]
            /\ UNCHANGED <<ls, location, navPending>>
    /\ UNCHANGED <<app, now, refreshTokenPromise, guardPending>>
    /\ UNCHANGED nonWebVars

\* the refresh started by the response interceptor for request r settles
RetryAfterRefresh(r, o) ==
    /\ app = "tenant"
    /\ req[r].pc = "await401"
    /\ LET s == StorageAfterRefresh(ls, o, now)
           refreshed == o \in {"ok", "noToken"}
           newToken == s.access_token
       IN  IF refreshed /\ newToken # NoToken
           THEN /\ ls' = s
                /\ req' = [req EXCEPT ![r] =
                              RequestInterceptor([req[r] EXCEPT !.auth = newToken],
                                                 s, refreshTokenPromise)]
                /\ UNCHANGED <<location, navPending>>
           ELSE /\ ls' = ClearCredentials(s)
                /\ location' = "/login"
                /\ navPending' = TRUE
                /\ req' = [req EXCEPT ![r] = Settle(req[r], "rejected", req[r].status)]
    /\ UNCHANGED <<app, now, refreshTokenPromise, guardPending>>
    /\ UNCHANGED nonWebVars

\* admin response interceptor, error branch
AdminResponseError(r, status) ==
    /\ app = "admin"
    /\ req[r].pc = "sent"
    /\ status \in {401, 403, 500}
    /\ IF IsUnauthorized(status)
       THEN IF ~IsLoginRequest(req[r])
            THEN /\ ls' = AdminClearCredentials(ls)
                 /\ location' = "/admin/login"
                 /\ navPending' = TRUE
            ELSE UNCHANGED <<ls, location, navPending>>
       ELSE UNCHANGED <<ls, location, navPending>>
    /\ req' = [req EXCEPT ![r] = Settle(req[r], "rejected", status)]
    /\ UNCHANGED <<app, now, refreshTokenPromise, guardPending>>
    /\ UNCHANGED nonWebVars

\* the caller has taken the result of the request
Complete(r) ==
    /\ req[r].pc \in {"fulfilled", "rejected"}
    /\ req' = [req EXCEPT ![r] = IdleReq]
    /\ UNCHANGED <<app, ls, location, navPending, now, refreshTokenPromise,
                   guardPending>>
    /\ UNCHANGED nonWebVars

\* the navigation started by `window.location.href = ...` loads the page
\* anew: the module state of the old page is gone, localStorage stays
PageReload ==
    /\ navPending
    /\ navPending' = FALSE
    /\ refreshTokenPromise' = 0
    /\ guardPending' = {}
    /\ req' = [r \in ReqIds |-> IdleReq]
    /\ UNCHANGED <<app, ls, location, now>>
    /\ UNCHANGED nonWebVars

NextWeb ==
    \/ Tick
    \/ \E r \in ReqIds, kind \in {"api", "login", "refresh"} : Request(r, kind)
    \/ \E r \in ReqIds : StartRefresh(r)
    \/ \E g \in ReqIds, o \in RefreshOutcomes : RefreshSettles(g, o)
    \/ \E r \in ReqIds, kind \in {"api", "login"} : AdminRequest(r, kind)
    \/ \E r \in ReqIds : ResponseOk(r)
    \/ \E r \in ReqIds, status \in {401, 403, 500} : ResponseError(r, status)
    \/ \E r \in ReqIds, o \in RefreshOutcomes : RetryAfterRefresh(r, o)
    \/ \E r \in ReqIds, status \in {401, 403, 500} : AdminResponseError(r, status)
    \/ \E r \in ReqIds : Complete(r)
    \/ PageReload

SpecWeb == InitWeb /\ [][NextWeb]_vars

(***************************************************************************)
(* The SPA shell (tenant: App in App.tsx, useAuthStore, AppLayout,         *)
(* ChangePassword; platform admin: its App.tsx, authStore.ts, Login.tsx,   *)
(* Layout.tsx).  A render of App and the <Navigate> elements it returns    *)
(* take effect within the step that changed what App reads.                *)
(***************************************************************************)
Roles == {"platform_admin", "tenant_admin", "hr_user"}

UserTypes == {"super_admin", "platform_admin", "tenant_admin", "hr_user"}

\* the user objects the backend can return
Accounts == [role : Roles, user_type : UserTypes]

\* user.tenant_id is set (it is null for a platform administrator)
HasTenant(u) == u.role # "platform_admin" /\ u.user_type \notin {"super_admin", "platform_admin"}

\* AuthenticatedApp / AppLayout: isTenantAdmin
IsTenantAdmin(u) == u.role = "tenant_admin" \/ u.user_type = "tenant_admin"

AnyoneIsPlatformAdmin(u) == TRUE

\* admin authStore: the negation of
\* user.role !== 'platform_admin' && user.user_type !== 'super_admin'
IsPlatformAdmin(u) == ~(u.role # "platform_admin" /\ u.user_type # "super_admin")

LoginPath(a) == IF a = "admin" THEN "/admin/login" ELSE "/login"

DashboardPath(a) == IF a = "admin" THEN "/admin/dashboard" ELSE "/dashboard"

\* tenant routes that are registered only when isTenantAdmin
TenantAdminPaths ==
    {"/organization/departments", "/settings/company-info", "/settings/users",
     "/settings/subscription"}

\* tenant routes registered for every authenticated user (a sample of them)
TenantOpenPaths == {"/dashboard", "/jobs", "/settings/change-password"}

\* admin routes (a sample of them)
AdminConsolePaths == {"/admin/dashboard", "/admin/tenants"}

\* the paths a user can ask for
Paths(a) ==
    IF a = "admin"
    THEN AdminConsolePaths \cup {"/admin/login", "/admin", "/unknown"}
    ELSE TenantOpenPaths \cup TenantAdminPaths \cup {"/login", "/", "/unknown"}

\* the pages behind the login
ProtectedPaths(a) ==
    IF a = "admin" THEN AdminConsolePaths ELSE TenantOpenPaths \cup TenantAdminPaths

AuthenticatedAppAllRoutes(a, u, p) ==
    IF p \in ProtectedPaths(a) THEN p ELSE DashboardPath(a)

\* AuthenticatedApp: the path whose element is rendered for path p
AuthenticatedApp(a, u, p) ==
    IF a = "admin"
    THEN IF p \in AdminConsolePaths THEN p ELSE "/admin/dashboard"
    ELSE IF p \in TenantOpenPaths THEN p
         ELSE IF p \in TenantAdminPaths /\ IsTenantAdmin(u) THEN p
         ELSE "/dashboard"

AppRoutesUnguarded(a, st, p) ==
    IF p = LoginPath(a) THEN p ELSE AuthenticatedApp(a, st.user, p)

\* App: <Routes> for path p; the result is the path shown after <Navigate>
AppRoutes(a, st, p) ==
    IF p = LoginPath(a)
    THEN IF ~st.isAuthenticated THEN p ELSE DashboardPath(a)
    ELSE IF st.isAuthenticated
         THEN AuthenticatedApp(a, st.user, p)
         ELSE LoginPath(a)

\* App: what is on screen for store st, authChecked = checked and path p
Render(a, st, checked, p) ==
    IF ~checked \/ st.isLoading
    THEN [path |-> p, screen |-> "loading"]
    ELSE LET q == AppRoutes(a, st, AppRoutes(a, st, p))
         IN  [path |-> q, screen |-> q]

\* the store, authChecked and the path become st, checked and p; App renders
Show(st, checked, p) ==
    /\ store' = st
    /\ authChecked' = checked
    /\ location' = Render(app, st, checked, p).path
    /\ screen' = Render(app, st, checked, p).screen

\* checkAuth: token && userStr
HasSession(a, s) ==
    IF a = "admin"
    THEN s.admin_access_token # NoToken /\ s.admin_user
    ELSE s.access_token # NoToken /\ s.user

\* localStorage after a login that the SPA accepts
StoreSession(a, s, u) ==
    IF a = "admin"
    THEN [s EXCEPT !.admin_access_token = Jwt(TokenLife), !.admin_user = TRUE]
    ELSE [s EXCEPT !.access_token = Jwt(TokenLife), !.user = TRUE,
                   !.tenant_id = IF HasTenant(u) THEN TRUE ELSE @]

\* localStorage after checkAuth got the user u
StoreUser(a, s, u) ==
    IF a = "admin"
    THEN [s EXCEPT !.admin_user = TRUE]
    ELSE [s EXCEPT !.user = TRUE, !.tenant_id = IF HasTenant(u) THEN TRUE ELSE @]

\* the removeItem calls of logout and of the failure branches of checkAuth
RemoveSession(a, s) ==
    IF a = "admin" THEN AdminClearCredentials(s) ELSE ClearCredentials(s)

LoggedOut(st) == [st EXCEPT !.user = NoUser, !.isAuthenticated = FALSE]

\* the sessions localStorage can hold when the page loads
StoredSessions(a) ==
    {EmptyStorage, StoreSession(a, EmptyStorage, [role |-> "hr_user", user_type |-> "hr_user"])}

\* the page loads at some path; localStorage is what earlier sessions left
InitAuth ==
    /\ NonAuthOff
    /\ app \in {"tenant", "admin"}
    /\ ls \in StoredSessions(app)
    /\ location \in Paths(app)
    /\ asked = location
    /\ navPending = FALSE
    /\ now = 0
    /\ refreshTokenPromise = 0
    /\ guardPending = {}
    /\ req = [r \in ReqIds |-> IdleReq]
    /\ store = InitialStore
    /\ authChecked = FALSE
    /\ screen = "loading"
    /\ checkPc = "start"
    /\ loginPc = "idle"
    /\ loginNav = FALSE
    /\ pwPc = "idle"
    /\ relogin = "no"

\* App's effect: initAuth calls checkAuth, which either sends GET /users/me
\* or finds no session, after which initAuth sets authChecked
StartCheckAuth ==
    /\ app \in {"tenant", "admin"}
    /\ checkPc = "start"
    /\ IF HasSession(app, ls)
       THEN /\ checkPc' = "pending"
            /\ UNCHANGED <<store, authChecked, location, screen>>
       ELSE /\ checkPc' = "idle"
            /\ Show([LoggedOut(store) EXCEPT !.isLoading = FALSE], TRUE, location)
    /\ UNCHANGED <<app, ls, navPending, asked, loginPc, loginNav, pwPc, relogin>>
    /\ UNCHANGED nonAuthVars

\* checkAuth after `await api.get('/users/me')`: u is the user returned,
\* NoUser stands for a failed request; then initAuth sets authChecked
CheckAuthResponse(u) ==
    /\ checkPc = "pending"
    /\ checkPc' = "idle"
    /\ IF u # NoUser /\ (app = "admin" => IsPlatformAdmin(u))
       THEN /\ ls' = StoreUser(app, ls, u)
            /\ Show([store EXCEPT !.user = u, !.isAuthenticated = TRUE,
                                   !.isLoading = FALSE],
                    TRUE, location)
       ELSE /\ ls' = RemoveSession(app, ls)
            /\ Show([LoggedOut(store) EXCEPT !.isLoading = FALSE], TRUE, location)
    /\ UNCHANGED <<app, navPending, asked, loginPc, loginNav, pwPc, relogin>>
    /\ UNCHANGED nonAuthVars

\* store.login, catch branch: the message kept in the store
LoginError(u) == IF u = NoUser THEN "loginFailed" ELSE "notPlatformAdmin"

\* the Login page calls store.login: set({ isLoading: true }), POST /auth/login
LoginSubmit ==
    /\ screen = LoginPath(app)
    /\ loginPc = "idle"
    /\ loginPc' = "pending"
    /\ Show([store EXCEPT !.isLoading = TRUE, !.error = "none"], authChecked,
            location)
    /\ UNCHANGED <<app, ls, navPending, asked, checkPc, loginNav, pwPc, relogin>>
    /\ UNCHANGED nonAuthVars

\* store.login after `await api.post('/auth/login')`: u is the user in the
\* response, NoUser stands for a rejected login
LoginResponse(u) ==
    /\ loginPc = "pending"
    /\ loginPc' = "idle"
    /\ IF u # NoUser /\ (app = "admin" => IsPlatformAdmin(u))
       THEN /\ ls' = StoreSession(app, ls, u)
            /\ Show([user |-> u, isAuthenticated |-> TRUE, isLoading |-> FALSE,
                     error |-> "none"],
                    authChecked, location)
            /\ loginNav' = (app = "admin")
            /\ relogin' = "no"
       ELSE /\ ls' = ls
            /\ Show([store EXCEPT !.isLoading = FALSE, !.isAuthenticated = FALSE,
                                   !.error = LoginError(u)],
                    authChecked, location)
            /\ UNCHANGED <<loginNav, relogin>>
    /\ UNCHANGED <<app, navPending, asked, checkPc, pwPc>>
    /\ UNCHANGED nonAuthVars

\* admin Login.onFinish: the timer fires, navigate('/admin/dashboard')
LoginNavigate ==
    /\ loginNav
    /\ loginNav' = FALSE
    /\ Show(store, authChecked, DashboardPath(app))
    /\ UNCHANGED <<app, ls, navPending, asked, checkPc, loginPc, pwPc, relogin>>
    /\ UNCHANGED nonAuthVars

\* the user menu of the layout: logout(); navigate(login path)
Logout ==
    /\ screen \in ProtectedPaths(app)
    /\ ls' = RemoveSession(app, ls)
    /\ Show(LoggedOut(store), authChecked, LoginPath(app))
    /\ UNCHANGED <<app, navPending, asked, checkPc, loginPc, loginNav, pwPc, relogin>>
    /\ UNCHANGED nonAuthVars

\* the user follows a link, a menu entry or the history to path p
Navigate(p) ==
    /\ app \in {"tenant", "admin"}
    /\ p \in Paths(app)
    /\ asked' = p
    /\ Show(store, authChecked, p)
    /\ UNCHANGED <<app, ls, navPending, checkPc, loginPc, loginNav, pwPc, relogin>>
    /\ UNCHANGED nonAuthVars

\* the user opens path p in the address bar or reloads: the page starts anew,
\* localStorage stays
PageLoad(p) ==
    /\ app \in {"tenant", "admin"}
    /\ p \in Paths(app)
    /\ asked' = p
    /\ Show(InitialStore, FALSE, p)
    /\ checkPc' = "start"
    /\ loginPc' = "idle"
    /\ loginNav' = FALSE
    /\ pwPc' = "idle"
    /\ relogin' = IF relogin = "cleared" THEN "navigated" ELSE relogin
    /\ UNCHANGED <<app, ls, navPending>>
    /\ UNCHANGED nonAuthVars

\* ChangePassword.handleSubmit up to `await api.post(...)`
ChangePasswordSubmit ==
    /\ app = "tenant"
    /\ screen = "/settings/change-password"
    /\ pwPc = "idle"
    /\ pwPc' = "pending"
    /\ UNCHANGED <<app, ls, location, navPending, store, authChecked, screen,
                   asked, checkPc, loginPc, loginNav, relogin>>
    /\ UNCHANGED nonAuthVars

\* ChangePassword.handleSubmit after the await: on success the credentials
\* are removed and navigate('/login') is scheduled
ChangePasswordResponse(ok) ==
    /\ pwPc = "pending"
    /\ IF ok
       THEN /\ ls' = ClearCredentials(ls)
            /\ pwPc' = "timer"
            /\ relogin' = "cleared"
       ELSE /\ pwPc' = "idle"
            /\ UNCHANGED <<ls, relogin>>
    /\ UNCHANGED <<app, location, navPending, store, authChecked, screen, asked,
                   checkPc, loginPc, loginNav>>
    /\ UNCHANGED nonAuthVars

\* ChangePassword: the timer fires, navigate('/login')
ChangePasswordNavigate ==
    /\ pwPc = "timer"
    /\ pwPc' = "idle"
    /\ relogin' = "navigated"
    /\ Show(store, authChecked, "/login")
    /\ UNCHANGED <<app, ls, navPending, asked, checkPc, loginPc, loginNav>>
    /\ UNCHANGED nonAuthVars

\* another tab of the same SPA completes a login as u: localStorage is shared
OtherTabLogin(u) ==
    /\ app \in {"tenant", "admin"}
    /\ app = "admin" => IsPlatformAdmin(u)
    /\ ls' = StoreSession(app, ls, u)
    /\ ls' # ls
    /\ relogin' = "no"
    /\ UNCHANGED <<app, location, navPending, store, authChecked, screen, asked,
                   checkPc, loginPc, loginNav, pwPc>>
    /\ UNCHANGED nonAuthVars

\* another tab of the same SPA logs out
OtherTabLogout ==
    /\ app \in {"tenant", "admin"}
    /\ ls' = RemoveSession(app, ls)
    /\ ls' # ls
    /\ UNCHANGED <<app, location, navPending, store, authChecked, screen, asked,
                   checkPc, loginPc, loginNav, pwPc, relogin>>
    /\ UNCHANGED nonAuthVars

NextAuth ==
    \/ StartCheckAuth
    \/ \E u \in Accounts \cup {NoUser} : CheckAuthResponse(u)
    \/ LoginSubmit
    \/ \E u \in Accounts \cup {NoUser} : LoginResponse(u)
    \/ LoginNavigate
    \/ Logout
    \/ \E p \in Paths(app) : Navigate(p)
    \/ \E p \in Paths(app) : PageLoad(p)
    \/ ChangePasswordSubmit
    \/ \E ok \in BOOLEAN : ChangePasswordResponse(ok)
    \/ ChangePasswordNavigate
    \/ \E u \in Accounts : OtherTabLogin(u)
    \/ OtherTabLogout

SpecAuth == InitAuth /\ [][NextAuth]_vars

(***************************************************************************)
(* Claims about the LLM provider selection (checked under SpecLLM).        *)
(***************************************************************************)
\* position of a provider in the fixed order
OrderIndex(p) == CHOOSE i \in 1..Len(ProviderOrder) : ProviderOrder[i] = p

\* p is the first provider of the fixed order within the set S
FirstOf(S, p) == p \in S /\ \A q \in S : OrderIndex(p) <= OrderIndex(q)

\* a call is in progress or has just ended, and llmSeen is what it read
CallMade == llmPc # "idle"

\* C1: whenever the user has a personal configuration with a non-empty key
\* whose provider is not disabled, the call uses that provider and only that
\* one, whatever the state of the default and of the other providers.
C1_UserConfigFirst ==
    (CallMade /\ llmSeen.userOk) =>
        /\ llmPc # "error"
        /\ llmProvider = llmSeen.userProvider
        /\ llmInvoked = <<llmSeen.userProvider>>

\* the user's doubao is called although the default deepseek is usable
C1_Witness ==
    /\ llmPc = "sent"
    /\ llmSeen.userOk
    /\ llmSeen.userProvider = "doubao"
    /\ llmProvider = "doubao"
    /\ llmSeen.current = DefaultProvider
    /\ DefaultProvider \in llmSeen.usable

\* C2 (as claimed): without a personal configuration every call uses the
\* default provider deepseek whenever deepseek is enabled and keyed at the
\* time of the call, whatever earlier calls on the same service did.
C2_DefaultWheneverUsable ==
    (CallMade /\ ~llmSeen.hasCfg /\ DefaultProvider \in llmSeen.usable) =>
        llmProvider = DefaultProvider

\* C3: without a personal configuration, when the default provider (and the
\* service's current provider) is disabled or unkeyed, the call uses the
\* first provider of the order deepseek -> doubao, other than the current
\* one, that is enabled and has a non-blank key; a provider that is disabled
\* or whose key is missing, empty or blank is never selected.
C3_FallbackFirstUsable ==
    (CallMade /\ ~llmSeen.hasCfg) =>
        /\ llmProvider # "none" => llmProvider \in llmSeen.usable
        /\ llmSeen.current \notin llmSeen.usable =>
              IF llmSeen.usable \ {llmSeen.current} = {}
              THEN llmProvider = "none"
              ELSE FirstOf(llmSeen.usable \ {llmSeen.current}, llmProvider)
        /\ DefaultProvider \notin llmSeen.usable =>
              IF llmSeen.usable = {}
              THEN llmProvider = "none"
              ELSE FirstOf(llmSeen.usable, llmProvider)

\* deepseek is the current provider and unusable, doubao is chosen
C3_Witness ==
    /\ llmPc = "sent"
    /\ ~llmSeen.hasCfg
    /\ llmSeen.current = "deepseek"
    /\ "deepseek" \notin llmSeen.usable
    /\ llmProvider = "doubao"

\* C4: if no provider qualifies (no usable personal configuration, no
\* provider both enabled and keyed), the call fails with the 'no provider
\* available' error and no LLM endpoint is called.
C4_NoProviderError ==
    (CallMade /\ ~llmSeen.userOk /\ llmSeen.usable = {}) =>
        /\ llmPc = "error"
        /\ llmProvider = "none"
        /\ llmInvoked = <<>>
        /\ llmInFlight = {}

\* the call has failed with the error and nothing was usable
C4_Witness ==
    /\ llmPc = "error"
    /\ ~llmSeen.userOk
    /\ llmSeen.usable = {}
    /\ llmInvoked = <<>>

C6_OneProvider ==
    /\ Len(llmInvoked) <= 1
    /\ Cardinality(llmInFlight) <= 1
    /\ llmPc \in {"sent", "done", "failed"} => llmInvoked = <<llmProvider>>
    /\ llmPc = "sent" => llmInFlight = {llmProvider}
    /\ llmPc \in {"done", "failed", "error"} => llmInFlight = {}

C6_NoSwitch ==
    (llmPc # "idle" /\ llmPc' # "idle") =>
        /\ llmProvider' = llmProvider
        /\ llmInvoked' = llmInvoked

\* C6: each chat_completion call invokes exactly one provider: never two at
\* once, the provider never changes after the request was sent, and a call
\* that failed at the provider is not sent to another provider.
C6_ExactlyOneProvider == [](C6_OneProvider) /\ [][C6_NoSwitch]_vars

\* a call failed at its provider while another provider was usable
C6_Witness ==
    /\ llmPc = "failed"
    /\ llmInvoked = <<llmProvider>>
    /\ UsableProviders \ {llmProvider} # {}

(***************************************************************************)
(* Claims about the SPAs' API clients (checked under SpecWeb).             *)
(***************************************************************************)
\* request r has just been rejected by the response interceptor with status st
RejectedNow(r, st) ==
    /\ req[r].pc = "sent"
    /\ req'[r].pc = "rejected"
    /\ req'[r].status = st

\* C7 (as claimed): in the tenant SPA at most one call of
\* authStore.refreshToken is in flight at any time, whether it was started
\* by the request interceptor or by the response interceptor.
C7_SingleRefreshInFlight == app = "tenant" => RefreshesInFlight <= 1

C8_RetryBounded ==
    app = "tenant" =>
        \A r \in ReqIds :
            /\ req[r].sends <= 2
            /\ req[r].refreshes <= 1
            /\ req[r].sends = 2 => (req[r].retry /\ req[r].refreshes = 1)
            /\ req[r].pc = "await401" =>
                  (req[r].sends = 1 /\ req[r].kind = "api" /\ req[r].refreshes = 1)

C8_RetryStep ==
    app = "tenant" =>
        \A r \in ReqIds :
            /\ (req[r].pc = "await401" /\ req'[r].pc \notin {"rejected", "idle", "await401"}) =>
                  /\ ls'.access_token # NoToken
                  /\ req'[r].retry
            /\ (req[r].pc # "sent" /\ req'[r].pc = "sent" /\ req'[r].retry) =>
                  /\ req'[r].sends = 2
                  /\ req'[r].auth # NoToken
                  /\ ls'.access_token # NoToken => req'[r].auth = ls'.access_token
            /\ (RejectedNow(r, 401) /\ req[r].retry) =>
                  /\ ls'.access_token = NoToken
                  /\ ~ls'.user
                  /\ ~ls'.tenant_id
                  /\ location' = "/login"
                  /\ RefreshesInFlight' = RefreshesInFlight
                  /\ req'[r].refreshes = req[r].refreshes
                  /\ req'[r].sends = req[r].sends

\* C8: in the tenant SPA a request that gets 401 (not a login or refresh
\* request) is retried at most once: after one successful refresh it is
\* re-sent once, carrying the access token found in localStorage; a 401 on
\* the re-sent request removes access_token, user and tenant_id and
\* redirects to /login without another refresh. No request is sent more
\* than twice and the response interceptor starts at most one refresh for it.
C8_RetryAtMostOnce == [](C8_RetryBounded) /\ [][C8_RetryStep]_vars

\* a request was refreshed for, re-sent, got 401 again and was given up
C8_Witness ==
    /\ app = "tenant"
    /\ \E r \in ReqIds :
          /\ req[r].pc = "rejected"
          /\ req[r].status = 401
          /\ req[r].sends = 2
          /\ req[r].refreshes = 1
    /\ ls.access_token = NoToken
    /\ location = "/login"

\* C9 (as claimed): in the platform-admin console, too, a 401 on a request
\* other than login is given up only after one token refresh and one retry.
C9_AdminRefreshesAndRetries ==
    app = "admin" =>
        \A r \in ReqIds :
            (req[r].pc = "rejected" /\ req[r].status = 401 /\ req[r].kind = "api") =>
                (req[r].sends = 2 /\ req[r].refreshes = 1)

C9_AdminNoRefresh ==
    app = "admin" =>
        /\ RefreshesInFlight = 0
        /\ refreshTokenPromise = 0
        /\ \A r \in ReqIds :
              /\ req[r].sends <= 1
              /\ req[r].refreshes = 0
              /\ ~req[r].retry

C9_AdminStep ==
    app = "admin" =>
        \A r \in ReqIds :
            (RejectedNow(r, 401) /\ req[r].kind = "api") =>
                /\ ls'.admin_access_token = NoToken
                /\ ~ls'.admin_user
                /\ location' = "/admin/login"
                /\ req'[r].sends = 1

\* C9 (amended): in the platform-admin console a 401 on a request other
\* than login removes admin_access_token and admin_user and redirects to
\* /admin/login at once: no token refresh is started and the request is not
\* sent again.
C9_AdminRedirectsAtOnce == [](C9_AdminNoRefresh) /\ [][C9_AdminStep]_vars

\* an admin request got 401 after one send; the credentials are gone
C9_Witness ==
    /\ app = "admin"
    /\ \E r \in ReqIds :
          /\ req[r].pc = "rejected"
          /\ req[r].status = 401
          /\ req[r].kind = "api"
          /\ req[r].sends = 1
    /\ ls.admin_access_token = NoToken
    /\ ~ls.admin_user
    /\ location = "/admin/login"

C10_ForbiddenStep ==
    \A r \in ReqIds :
        /\ RejectedNow(r, 403) =>
              /\ req'[r].toast
              /\ ls' = ls
              /\ location' = location
              /\ navPending' = navPending
              /\ refreshTokenPromise' = refreshTokenPromise
              /\ guardPending' = guardPending
              /\ RefreshesInFlight' = RefreshesInFlight
              /\ req'[r].sends = req[r].sends
              /\ req'[r].refreshes = req[r].refreshes
              /\ \A q \in ReqIds \ {r} : req'[q] = req[q]
        /\ (req[r].pc = "rejected" /\ req[r].status = 403) =>
              req'[r].pc \in {"rejected", "idle"}
        /\ (req[r].pc = "sent" /\ req'[r].status = 403) => req'[r].pc = "rejected"

\* C10: in both SPAs a 403 response only shows the 'insufficient
\* permission' toast: no stored credential is removed, no token refresh is
\* started, there is no redirect and no retry, and the request is rejected
\* to its caller.
C10_ForbiddenOnlyToast == [][C10_ForbiddenStep]_vars

\* a request was rejected with 403 and the session is untouched
C10_Witness ==
    /\ app = "tenant"
    /\ \E r \in ReqIds :
          /\ req[r].pc = "rejected"
          /\ req[r].status = 403
          /\ req[r].toast
          /\ req[r].sends = 1
    /\ ls.access_token # NoToken
    /\ ls.user
    /\ location = "/"
    /\ ~navPending

(***************************************************************************)
(* Claims about the SPA shell (checked under SpecAuth).                    *)
(***************************************************************************)
\* App has rendered <Routes>
RoutesRendered == authChecked /\ ~store.isLoading

C12_TenantAdminPages ==
    app = "tenant" =>
        /\ screen \in TenantAdminPaths =>
              /\ store.isAuthenticated
              /\ store.user.role = "tenant_admin" \/ store.user.user_type = "tenant_admin"
        /\ ( /\ RoutesRendered
             /\ store.isAuthenticated
             /\ store.user.role # "tenant_admin"
             /\ store.user.user_type # "tenant_admin"
             /\ asked \in TenantAdminPaths ) =>
              (location = "/dashboard" /\ screen = "/dashboard")

\* an HR user asked for the user management and is on the dashboard
C12_Witness ==
    /\ app = "tenant"
    /\ RoutesRendered
    /\ store.isAuthenticated
    /\ store.user = [role |-> "hr_user", user_type |-> "hr_user"]
    /\ asked = "/settings/users"
    /\ screen = "/dashboard"

\* the admin store's login has just settled
AdminLoginSettles == app = "admin" /\ loginPc = "pending" /\ loginPc' = "idle"

\* the admin store's checkAuth has just settled after GET /users/me
AdminCheckSettles == app = "admin" /\ checkPc = "pending" /\ checkPc' = "idle"

\* the user in the store is a platform administrator
AdminInStore == store.user.role = "platform_admin" \/ store.user.user_type = "super_admin"

\* C13 (as claimed): a login or a checkAuth by an account that is no
\* platform administrator leaves no admin_access_token in localStorage and
\* isAuthenticated false.
C13_NoTokenAfterRefusal ==
    [][( \/ AdminLoginSettles /\ store'.error = "notPlatformAdmin"
         \/ AdminCheckSettles /\ ~store'.isAuthenticated )
         => (ls'.admin_access_token = NoToken /\ ~store'.isAuthenticated)]_vars

C13_OnlyAdmins == (app = "admin" /\ store.isAuthenticated) => AdminInStore

C13_Step ==
    /\ (AdminLoginSettles /\ ~store'.isAuthenticated) => ls' = ls
    /\ (AdminLoginSettles /\ store'.isAuthenticated) =>
          (ls'.admin_access_token # NoToken /\ ls'.admin_user)
    /\ (AdminCheckSettles /\ ~store'.isAuthenticated) =>
          (ls'.admin_access_token = NoToken /\ ~ls'.admin_user)

\* C13 (amended): in the admin store isAuthenticated is true only for a
\* user whose role is platform_admin or whose user_type is super_admin; a
\* login that is refused stores nothing (localStorage is left as it was) and
\* sets isAuthenticated false; a checkAuth that finds another account, or
\* fails, removes admin_access_token and admin_user and sets isAuthenticated
\* false.
C13_AdminStoreOnlyAdmins == [](C13_OnlyAdmins) /\ [][C13_Step]_vars

\* the login of an account that is no platform administrator has been
\* refused: nothing was stored and the login page is shown again
C13_Witness ==
    /\ app = "admin"
    /\ loginPc = "idle"
    /\ store.error = "notPlatformAdmin"
    /\ ~store.isAuthenticated
    /\ ~store.isLoading
    /\ screen = "/admin/login"
    /\ ls.admin_access_token = NoToken
    /\ ~ls.admin_user

\* C14 (as claimed): after a successful password change in the tenant SPA
\* access_token, user and tenant_id are gone from localStorage and, once the
\* page has navigated to /login, the user is on the login page (or sees the
\* loading placeholder of a login or of a page load), never on a page behind
\* the login, until a new login succeeds.
C14_ReloginAfterPasswordChange ==
    (app = "tenant" /\ relogin # "no") =>
        /\ ls.access_token = NoToken
        /\ ~ls.user
        /\ ~ls.tenant_id
        /\ relogin = "navigated" => screen \in {"loading", "/login"}

(***************************************************************************)
(* The job pages (JobCreate, JobList, JobDetail) and the job endpoints     *)
(* they call.  The backend is a plain record store: POST creates the       *)
(* position with the fields sent, PUT overwrites the fields sent, publish  *)
(* takes a draft to published.  The pages can be open in several tabs and  *)
(* by several users of the tenant, so what a page holds can be older than  *)
(* the backend's record.                                                   *)
(***************************************************************************)
JobStatuses == {"draft", "published", "closed"}

\* the place of a status in the lifecycle draft -> published -> closed
Rank(st) == CASE st = "draft" -> 1 [] st = "published" -> 2 [] st = "closed" -> 3
                 [] OTHER -> 0

\* POST /jobs/positions with the submitted data
CreatePosition(js, j, data) == [js EXCEPT ![j] = data.status]

\* PUT /jobs/positions/{id} with the form's values
UpdatePosition(js, j, values) == [js EXCEPT ![j] = values.status]

\* POST /jobs/positions/{id}/publish
PublishJob(js, j) == [js EXCEPT ![j] = IF @ = "draft" THEN "published" ELSE @]

\* the page starts with no job stored and nothing loaded
InitJob ==
    /\ NonJobOff
    /\ jobs = [j \in JobIds |-> "none"]
    /\ profiled = {}
    /\ listJobs = [j \in JobIds |-> "none"]
    /\ detailJob = NoJob

\* JobCreate.handleSubmit: the position is created with status 'draft'
JobCreateSubmit(j) ==
    /\ jobs[j] = "none"
    /\ \A i \in JobIds : i < j => jobs[i] # "none"
    /\ jobs' = CreatePosition(jobs, j, [status |-> "draft"])
    /\ UNCHANGED <<profiled, listJobs, detailJob>>
    /\ UNCHANGED nonJobVars

\* JobList.loadJobs
LoadJobs ==
    /\ listJobs' = jobs
    /\ listJobs' # listJobs
    /\ UNCHANGED <<jobs, profiled, detailJob>>
    /\ UNCHANGED nonJobVars

\* JobList.handleEdit, JobDetail.loadJob: the job is put into the form
LoadJob(j) ==
    /\ listJobs[j] # "none"
    /\ jobs[j] # "none"
    /\ detailJob' = [id |-> j, status |-> jobs[j]]
    /\ UNCHANGED <<jobs, profiled, listJobs>>
    /\ UNCHANGED nonJobVars

\* JobDetail.handleSubmit: the form's values, the disabled status field
\* included, are sent; then navigate('/jobs')
JobDetailSubmit ==
    /\ detailJob # NoJob
    /\ jobs' = UpdatePosition(jobs, detailJob.id, [status |-> detailJob.status])
    /\ detailJob' = NoJob
    /\ UNCHANGED <<profiled, listJobs>>
    /\ UNCHANGED nonJobVars

\* JobDetail: the cancel button, navigate('/jobs')
JobDetailCancel ==
    /\ detailJob # NoJob
    /\ detailJob' = NoJob
    /\ UNCHANGED <<jobs, profiled, listJobs>>
    /\ UNCHANGED nonJobVars

\* JobList.handlePublish, offered for a row whose status is 'draft';
\* publishJob(id, true, true), then loadJobs
HandlePublish(j) ==
    /\ listJobs[j] = "draft"
    /\ jobs' = PublishJob(jobs, j)
    /\ profiled' = profiled \cup {j}
    /\ listJobs' = jobs'
    /\ UNCHANGED detailJob
    /\ UNCHANGED nonJobVars

\* JobList.handleParseProfile, offered for a row whose status is 'draft';
\* then loadJobs
HandleParseProfile(j) ==
    /\ listJobs[j] = "draft"
    /\ profiled' = profiled \cup {j}
    /\ listJobs' = jobs
    /\ UNCHANGED <<jobs, detailJob>>
    /\ UNCHANGED nonJobVars

\* a published position is closed (no page of the SPA offers this)
ClosePosition(j) ==
    /\ jobs[j] = "published"
    /\ jobs' = UpdatePosition(jobs, j, [status |-> "closed"])
    /\ UNCHANGED <<profiled, listJobs, detailJob>>
    /\ UNCHANGED nonJobVars

NextJob ==
    \/ \E j \in JobIds : JobCreateSubmit(j)
    \/ LoadJobs
    \/ \E j \in JobIds : LoadJob(j)
    \/ JobDetailSubmit
    \/ JobDetailCancel
    \/ \E j \in JobIds : HandlePublish(j)
    \/ \E j \in JobIds : HandleParseProfile(j)
    \/ \E j \in JobIds : ClosePosition(j)

SpecJob == InitJob /\ [][NextJob]_vars

C15_Step ==
    \A j \in JobIds :
        /\ (jobs[j] = "none" /\ jobs'[j] # "none") => jobs'[j] = "draft"
        /\ jobs[j] # "none" =>
              /\ Rank(jobs'[j]) >= Rank(jobs[j])
              /\ Rank(jobs'[j]) <= Rank(jobs[j]) + 1

\* C15 (as claimed): a job is created in draft and no step of the job pages
\* (create, load, edit and save, parse profile, publish), in any order and
\* with pages that hold older data, moves a job's status backwards in
\* draft -> published -> closed or from draft straight to closed.
C15_JobLifecycle == [][C15_Step]_vars

(***************************************************************************)
(* The match list (MatchList) and the match endpoints.  The backend is a   *)
(* plain record store: the status endpoint stores the status it is sent.   *)
(***************************************************************************)
MatchStatuses == {"pending", "reviewed", "rejected", "accepted"}

\* PUT /jobs/match/results/{id}/status?new_status=...
UpdateMatchStatus(ms, m, status) == [ms EXCEPT ![m] = status]

InitMatch ==
    /\ NonMatchOff
    /\ matches = [m \in MatchIds |-> "none"]
    /\ listMatches = [t \in MatchLists |-> [m \in MatchIds |-> "none"]]

\* a matching run stores a new match, which starts as pending
CreateMatch(m) ==
    /\ matches[m] = "none"
    /\ \A i \in MatchIds : i < m => matches[i] # "none"
    /\ matches' = [matches EXCEPT ![m] = "pending"]
    /\ UNCHANGED listMatches
    /\ UNCHANGED nonMatchVars

\* MatchList.loadMatches of page t
LoadMatches(t) ==
    /\ listMatches[t] # matches
    /\ listMatches' = [listMatches EXCEPT ![t] = matches]
    /\ UNCHANGED matches
    /\ UNCHANGED nonMatchVars

\* MatchList columns: record.status === 'pending'
IsPending(status) == status = "pending"

\* MatchList.handleUpdateStatus of page t, from the buttons of a row the
\* page shows as pending; then loadMatches
HandleUpdateStatus(t, m, status) ==
    /\ IsPending(listMatches[t][m])
    /\ status \in {"reviewed", "rejected"}
    /\ matches' = UpdateMatchStatus(matches, m, status)
    /\ listMatches' = [listMatches EXCEPT ![t] = matches']
    /\ UNCHANGED nonMatchVars

\* a reviewed match is accepted (no page under src/ offers this)
AcceptMatch(m) ==
    /\ matches[m] = "reviewed"
    /\ matches' = UpdateMatchStatus(matches, m, "accepted")
    /\ UNCHANGED listMatches
    /\ UNCHANGED nonMatchVars

NextMatch ==
    \/ \E m \in MatchIds : CreateMatch(m)
    \/ \E t \in MatchLists : LoadMatches(t)
    \/ \E t \in MatchLists, m \in MatchIds, status \in {"reviewed", "rejected"} :
          HandleUpdateStatus(t, m, status)
    \/ \E m \in MatchIds : AcceptMatch(m)

SpecMatch == InitMatch /\ [][NextMatch]_vars

C16_StatusRange == \A m \in MatchIds : matches[m] \in MatchStatuses \cup {"none"}

\* a step of a MatchList page: its rows change
MatchListStep == listMatches' # listMatches

C16_Step ==
    MatchListStep =>
        \A m \in MatchIds :
            matches'[m] # matches[m] =>
                (matches[m] = "pending" /\ matches'[m] \in {"reviewed", "rejected"})

\* C16 (as claimed): a match's status is one of pending, reviewed, rejected,
\* accepted, and a step of the match list changes the status only of a
\* match that is pending, to reviewed or rejected, also when the page's rows
\* were loaded before the match was reviewed.
C16_MatchListOnlyPending == [](C16_StatusRange) /\ [][C16_Step]_vars

(***************************************************************************)
(* The department page (DepartmentList) and the department endpoints.  The *)
(* backend is a plain record store: it stores the parent_id it is sent.    *)
(***************************************************************************)
\* POST /organization/departments
CreateDepartment(ps, d, values) == [ps EXCEPT ![d] = values.parent_id]

\* PUT /organization/departments/{id}
UpdateDepartment(ps, d, values) == [ps EXCEPT ![d] = values.parent_id]

\* getAllDepartments: the ids of the departments the page holds
AllDepartments(ds) == {d \in DeptIds : ds[d] # NoDept}

\* the options of the parent_id Select: every department of the list but
\* the one that is edited
ParentOptions(ds, editing) == {d \in AllDepartments(ds) : editing = NoDept \/ d # editing}

InitDept ==
    /\ NonDeptOff
    /\ parentOf = [d \in DeptIds |-> NoDept]
    /\ departments = [t \in DeptPages |-> [d \in DeptIds |-> NoDept]]

\* DepartmentList.fetchDepartments on page t
FetchDepartments(t) ==
    /\ departments[t] # parentOf
    /\ departments' = [departments EXCEPT ![t] = parentOf]
    /\ UNCHANGED parentOf
    /\ UNCHANGED nonDeptVars

\* handleCreate and handleSubmit on page t: a department is created under
\* the parent chosen in the form (or under none); then fetchDepartments
DeptCreateSubmit(t, d, p) ==
    /\ parentOf[d] = NoDept
    /\ \A i \in DeptIds : i < d => parentOf[i] # NoDept
    /\ p \in ParentOptions(departments[t], NoDept) \cup {NoParent}
    /\ parentOf' = CreateDepartment(parentOf, d, [parent_id |-> p])
    /\ departments' = [departments EXCEPT ![t] = parentOf']
    /\ UNCHANGED nonDeptVars

\* handleEdit and handleSubmit on page t: department d of the list is
\* edited and saved with the parent chosen in the form; then
\* fetchDepartments
DeptEditSubmit(t, d, p) ==
    /\ d \in AllDepartments(departments[t])
    /\ p \in ParentOptions(departments[t], d) \cup {NoParent}
    /\ parentOf' = UpdateDepartment(parentOf, d, [parent_id |-> p])
    /\ departments' = [departments EXCEPT ![t] = parentOf']
    /\ UNCHANGED nonDeptVars

NextDept ==
    \/ \E t \in DeptPages : FetchDepartments(t)
    \/ \E t \in DeptPages, d \in DeptIds, p \in DeptIds \cup {NoParent} :
          DeptCreateSubmit(t, d, p)
    \/ \E t \in DeptPages, d \in DeptIds, p \in DeptIds \cup {NoParent} :
          DeptEditSubmit(t, d, p)

SpecDept == InitDept /\ [][NextDept]_vars

\* the departments above d, following parent_id at most n times
RECURSIVE Ancestors(_, _)
Ancestors(d, n) ==
    IF n = 0 \/ parentOf[d] \in {NoParent, NoDept}
    THEN {}
    ELSE {parentOf[d]} \cup Ancestors(parentOf[d], n - 1)

\* C17 (as claimed): after any sequence of create and edit operations made
\* through the department form no department is its own parent or its own
\* ancestor.
C17_DepartmentsFormTree ==
    \A d \in DeptIds : parentOf[d] # NoDept => d \notin Ancestors(d, MaxDepts)

(***************************************************************************)
(* The personal LLM settings: the form of the Settings page                *)
(* (loadLLMConfig, handleProviderChange, save) and the endpoint            *)
(* /users/me/llm-config over the UserLLMConfig table.                      *)
(***************************************************************************)
\* the API keys the user types: "sk-1abcd1", "sk-2abcd2", ...
TypedKey(i) == <<"s", "k", "-", ToString(i), "a", "b", "c", "d", ToString(i)>>

TypedKeys == {TypedKey(i) : i \in 1..MaxTyped}

Stars == <<"*", "*", "*", "*">>

\* the masked form of a stored key: first four characters, "****", last
\* four characters
Mask(k) == SubSeq(k, 1, 4) \o Stars \o SubSeq(k, Len(k) - 3, Len(k))

\* currentApiKey.includes('****')
IsMaskedKey(k) == \E i \in 1..Len(k) : i + 3 <= Len(k) /\ SubSeq(k, i, i + 3) = Stars

\* providerDefaults[provider]: the default base_url and model_name
ProviderDefaults(p) ==
    CASE p = "deepseek" -> [base_url |-> "https://api.deepseek.com/v1",
                            model_name |-> "deepseek-chat"]
      [] p = "doubao" -> [base_url |-> "https://ark.cn-beijing.volces.com/api/v3/chat/completions",
                          model_name |-> "doubao-seed-1-6-lite-251015"]
      [] p = "qwen" -> [base_url |-> "https://dashscope.aliyuncs.com/compatible-mode/v1",
                        model_name |-> "qwen3-next-80b-a3b-instruct"]

\* the empty configuration the endpoint answers with
EmptyConfig == [provider |-> "none", api_key |-> EmptyKey,
                base_url |-> "none", model_name |-> "none"]

\* the answer for a stored row: the key is masked
MaskedConfig(row) == [row EXCEPT !.api_key = Mask(row.api_key)]

\* GET /users/me/llm-config?provider=p: the row of the user with that
\* provider, masked, or the empty configuration
GetMyLLMConfigFor(rows, p) ==
    IF \E row \in rows : row.provider = p
    THEN MaskedConfig(CHOOSE row \in rows : row.provider = p)
    ELSE EmptyConfig

\* GET /users/me/llm-config without provider: the configuration stored
GetMyLLMConfig(rows) ==
    IF rows # {}
    THEN MaskedConfig(CHOOSE row \in rows : TRUE)
    ELSE EmptyConfig

SaveMyLLMConfigPerProvider(rows, values) ==
    {row \in rows : row.provider # values.provider} \cup {values}

\* saving the configuration: the user has one UserLLMConfig row; saving
\* updates the provider and the other fields of that row
SaveMyLLMConfig(rows, values) ==
    IF rows = {}
    THEN {values}
    ELSE {[row EXCEPT !.provider = values.provider,
                      !.api_key = values.api_key,
                      !.base_url = values.base_url,
                      !.model_name = values.model_name] : row \in rows}

\* x || y of JavaScript for the values of the form
OrElse(x, y) == IF x = "none" THEN y ELSE x

InitCfg ==
    /\ NonCfgOff
    /\ userLLMConfig = {}
    /\ llmForm = EmptyForm
    /\ saved = [all |-> {}, last |-> "none"]

\* loadLLMConfig: the page is opened and the form is filled with the stored
\* configuration
LoadLLMConfig ==
    /\ LET data == GetMyLLMConfig(userLLMConfig)
           currentProvider == OrElse(data.provider, "deepseek")
       IN  llmForm' = [provider |-> currentProvider,
                       api_key |-> data.api_key,
                       base_url |-> OrElse(data.base_url, ProviderDefaults(currentProvider).base_url),
                       model_name |-> OrElse(data.model_name, ProviderDefaults(currentProvider).model_name)]
    /\ UNCHANGED <<userLLMConfig, saved>>
    /\ UNCHANGED nonCfgVars

\* the user types k into the API key field (or empties it)
TypeApiKey(k) ==
    /\ llmForm.provider # "none"
    /\ llmForm.api_key # k
    /\ llmForm' = [llmForm EXCEPT !.api_key = k]
    /\ UNCHANGED <<userLLMConfig, saved>>
    /\ UNCHANGED nonCfgVars

\* handleProviderChange(newProvider): the configuration of newProvider is
\* queried and shown; without one the key field is emptied and the
\* defaults of the provider are shown
HandleProviderChange(newProvider) ==
    /\ llmForm.provider # "none"
    /\ newProvider # llmForm.provider
    /\ LET data == GetMyLLMConfigFor(userLLMConfig, newProvider)
       IN  llmForm' =
             IF data.api_key # EmptyKey
             THEN [provider |-> newProvider,
                   api_key |-> data.api_key,
                   base_url |-> OrElse(data.base_url, ProviderDefaults(newProvider).base_url),
                   model_name |-> OrElse(data.model_name, ProviderDefaults(newProvider).model_name)]
             ELSE [provider |-> newProvider,
                   api_key |-> EmptyKey,
                   base_url |-> ProviderDefaults(newProvider).base_url,
                   model_name |-> ProviderDefaults(newProvider).model_name]
    /\ UNCHANGED <<userLLMConfig, saved>>
    /\ UNCHANGED nonCfgVars

\* the form is saved with a complete key typed by the user
SaveLLMConfig ==
    /\ llmForm.provider # "none"
    /\ llmForm.api_key # EmptyKey
    /\ ~IsMaskedKey(llmForm.api_key)
    /\ userLLMConfig' = SaveMyLLMConfig(userLLMConfig, llmForm)
    /\ userLLMConfig' # userLLMConfig
    /\ saved' = [all |-> saved.all \cup {llmForm.provider}, last |-> llmForm.provider]
    /\ UNCHANGED llmForm
    /\ UNCHANGED nonCfgVars

NextCfg ==
    \/ LoadLLMConfig
    \/ \E k \in TypedKeys \cup {EmptyKey} : TypeApiKey(k)
    \/ \E p \in FormProviders : HandleProviderChange(p)
    \/ SaveLLMConfig

SpecCfg == InitCfg /\ [][NextCfg]_vars

\* the providers for which a query returns a key
ConfiguredProviders ==
    {p \in FormProviders : GetMyLLMConfigFor(userLLMConfig, p).api_key # EmptyKey}

ProviderSwitched == \E p \in FormProviders : HandleProviderChange(p)

C19_Step ==
    ProviderSwitched =>
       /\ (llmForm.api_key # EmptyKey /\ ~IsMaskedKey(llmForm.api_key))
             => llmForm'.api_key = llmForm.api_key
       /\ (llmForm.api_key # EmptyKey /\ llmForm'.api_key = EmptyKey)
             => IsMaskedKey(llmForm.api_key)

\* C19 (as claimed): when the API key field holds a typed, unmasked key and
\* the provider selector is switched to another provider, the typed key is
\* kept; the field is emptied only when it was empty or held a masked value.
C19_TypedKeyKept == [][C19_Step]_vars

(***************************************************************************)
(* The request interceptor of the tenant client and the expiry of the      *)
(* access token.                                                           *)
(***************************************************************************)
\* the request waits in the request interceptor for a token refresh
WaitsForRefresh(q) == q.pc \in {"import", "awaitRefresh"}

\* the stored token cannot be parsed or has less than 300 seconds left
ExpiresSoon(token, t) ==
    token = BadToken \/ token[2] - t < 300

\* a page makes request r while localStorage holds an access token
MadeWithToken(r) ==
    /\ app = "tenant"
    /\ req[r].pc = "idle"
    /\ req'[r].pc # "idle"
    /\ ls.access_token # NoToken

C20_Step ==
    \A r \in ReqIds :
       \* made with a token that expires soon: held back, a refresh starts
       \* or is awaited
       /\ (MadeWithToken(r) /\ req'[r].kind # "refresh"
              /\ ExpiresSoon(ls.access_token, now))
             => /\ WaitsForRefresh(req'[r])
                /\ req'[r].sends = 0
       \* made with a token that has 300 seconds or more left, or the
       \* refresh request itself: sent at once with the current token
       /\ (MadeWithToken(r)
              /\ (req'[r].kind = "refresh" \/ ~ExpiresSoon(ls.access_token, now)))
             => /\ req'[r].pc = "sent"
                /\ req'[r].sends = 1
                /\ req'[r].auth = ls.access_token
                /\ refreshTokenPromise' = refreshTokenPromise
                /\ guardPending' = guardPending
                /\ ls' = ls
       \* while it waits the request is not sent
       /\ (WaitsForRefresh(req[r]) /\ WaitsForRefresh(req'[r]))
             => req'[r].sends = req[r].sends
       \* it is sent only when the refresh it awaits settles, and then with
       \* the token localStorage holds after the refresh
       /\ (WaitsForRefresh(req[r]) /\ req'[r].pc = "sent")
             => /\ req[r].pc = "awaitRefresh"
                /\ req[r].awaits \in guardPending
                /\ req[r].awaits \notin guardPending'
                /\ req'[r].sends = req[r].sends + 1
                /\ ls'.access_token # NoToken => req'[r].auth = ls'.access_token

\* C20: in the tenant SPA a request made while the stored access token has
\* less than 300 seconds left or cannot be parsed, other than the refresh
\* request itself, is not sent before the token refresh has settled, and is
\* then sent with the access token found in localStorage after the refresh;
\* a request made while the token has 300 seconds or more left is sent
\* without a refresh and carries the current token.
C20_RefreshBeforeSend == [][C20_Step]_vars

\* a request is held back while the refresh another request started is in
\* flight, and that request waits for it too
C20_Witness ==
    \E r, g \in ReqIds :
       /\ r # g
       /\ req[r].kind = "api"
       /\ req[r].pc = "awaitRefresh"
       /\ req[r].awaits = g
       /\ req[r].sends = 0
       /\ g \in guardPending
       /\ req[g].pc = "awaitRefresh"

(***************************************************************************)
(* The tenant client under fair scheduling: a dynamic import that was      *)
(* awaited resolves, and a refresh call that was started settles.          *)
(***************************************************************************)
SpecWebFair ==
    /\ SpecWeb
    /\ \A r \in ReqIds : WF_vars(StartRefresh(r))
    /\ \A g \in ReqIds : WF_vars(\E o \in RefreshOutcomes : RefreshSettles(g, o))

C21_Step ==
    /\ \A r \in ReqIds :
          \* the refresh request never waits in the request interceptor
          /\ req'[r].kind = "refresh" => ~WaitsForRefresh(req'[r])
          \* a request that awaits a refresh awaits one that is in flight
          /\ req'[r].pc = "awaitRefresh" => req'[r].awaits \in guardPending'
          \* with the marker cleared, a request made with an expiring token
          \* goes on to start a refresh of its own
          /\ (MadeWithToken(r) /\ req'[r].kind # "refresh"
                 /\ ExpiresSoon(ls.access_token, now) /\ refreshTokenPromise = 0)
                => req'[r].pc = "import"
    \* a refresh that settles, with any outcome, clears the marker
    /\ guardPending' # guardPending /\ guardPending' \subseteq guardPending
          => refreshTokenPromise' = 0
    \* the marker names a refresh that is in flight
    /\ refreshTokenPromise' # 0 => refreshTokenPromise' \in guardPending'

\* C21: token refresh cannot wedge the tenant client: the refresh request
\* never waits on the pending refresh; when a refresh settles, with success
\* or failure, refreshTokenPromise is cleared; every request that waits in
\* the request interceptor eventually proceeds, and a later request with an
\* expiring token starts a new refresh.
C21_RefreshCannotWedge ==
    /\ [][C21_Step]_vars
    /\ \A r \in ReqIds : WaitsForRefresh(req[r]) ~> ~WaitsForRefresh(req[r])

\* a refresh has settled without success and left the expiring token; the
\* marker is cleared and a later request is about to start a new refresh
C21_Witness ==
    \E r, g \in ReqIds :
       /\ r # g
       /\ req[g].kind = "api"
       /\ req[g].pc = "sent"
       /\ req[g].auth = BadToken
       /\ refreshTokenPromise = 0
       /\ guardPending = {}
       /\ req[r].pc = "import"

(***************************************************************************)
(* 401 on the login request and on the refresh request.                    *)
(***************************************************************************)
\* the requests the response interceptors leave alone on 401: login in both
\* SPAs, the token refresh in the tenant SPA
ExemptFrom401(q) ==
    \/ q.kind = "login"
    \/ app = "tenant" /\ q.kind = "refresh"

\* such a request is never refreshed for and never re-sent
C22_NeverRefreshed ==
    \A r \in ReqIds :
       ExemptFrom401(req[r]) =>
          /\ req[r].pc # "await401"
          /\ req[r].refreshes = 0
          /\ ~req[r].retry
          /\ req[r].sends <= 1

C22_Step ==
    \A r \in ReqIds :
       (ExemptFrom401(req[r]) /\ RejectedNow(r, 401)) =>
          /\ ls' = ls
          /\ location' = location
          /\ navPending' = navPending
          /\ refreshTokenPromise' = refreshTokenPromise
          /\ guardPending' = guardPending
          /\ RefreshesInFlight' = RefreshesInFlight
          /\ req'[r].sends = req[r].sends
          /\ ~req'[r].toast
          /\ \A q \in ReqIds \ {r} : req'[q] = req[q]

\* C22: a 401 response to a login request (both SPAs) or to the token
\* refresh request (tenant SPA) starts no token refresh, removes no stored
\* credential and does not redirect; the request is rejected to its caller
\* with that error and is not sent again.
C22_LoginAndRefresh401 == [](C22_NeverRefreshed) /\ [][C22_Step]_vars

\* a login request got 401 while credentials were stored: they are still
\* there and the browser stayed where it was
C22_Witness ==
    /\ \E r \in ReqIds :
          /\ req[r].kind = "login"
          /\ req[r].pc = "rejected"
          /\ req[r].status = 401
    /\ app = "tenant" => ls.access_token # NoToken /\ ls.user
    /\ app = "admin" => ls.admin_access_token # NoToken /\ ls.admin_user
    /\ location = "/"
    /\ ~navPending

(***************************************************************************)
(* 401 followed by a refresh that fails.                                   *)
(***************************************************************************)
\* the refresh the response interceptor started for request r fails:
\* refreshToken returns false, throws, or leaves no access_token
RefreshFails(r) ==
    \/ RetryAfterRefresh(r, "false")
    \/ RetryAfterRefresh(r, "throw")
    \/ RetryAfterRefresh(r, "noToken")

C23_Step ==
    \A r \in ReqIds :
       RefreshFails(r) =>
          /\ ls'.access_token = NoToken
          /\ ~ls'.user
          /\ ~ls'.tenant_id
          /\ location' = "/login"
          /\ navPending'
          /\ req'[r].pc = "rejected"
          /\ req'[r].status = 401
          /\ req'[r].sends = req[r].sends
          /\ req'[r].refreshes = req[r].refreshes

\* C23: in the tenant SPA, when a request got 401 and the refresh then
\* fails (refreshToken returns false, throws, or leaves no access_token in
\* localStorage), access_token, user and tenant_id are removed from
\* localStorage, the browser is redirected to /login, the request is not
\* sent again and its promise rejects with the 401 error.
C23_FailedRefreshLogsOut == [][C23_Step]_vars

\* a request was sent once, got 401, the refresh failed: it is rejected,
\* the credentials are gone and the browser goes to /login
C23_Witness ==
    /\ app = "tenant"
    /\ \E r \in ReqIds :
          /\ req[r].kind = "api"
          /\ req[r].pc = "rejected"
          /\ req[r].status = 401
          /\ req[r].sends = 1
          /\ req[r].refreshes = 1
    /\ ls.access_token = NoToken
    /\ ~ls.user
    /\ ~ls.tenant_id
    /\ location = "/login"
    /\ navPending

(***************************************************************************)
(* The tenant auth store and the stored access token.                      *)
(***************************************************************************)
\* the steps of one tab: no other tab of the SPA touches localStorage
NextAuthOneTab ==
    \/ StartCheckAuth
    \/ \E u \in Accounts \cup {NoUser} : CheckAuthResponse(u)
    \/ LoginSubmit
    \/ \E u \in Accounts \cup {NoUser} : LoginResponse(u)
    \/ LoginNavigate
    \/ Logout
    \/ \E p \in Paths(app) : Navigate(p)
    \/ \E p \in Paths(app) : PageLoad(p)
    \/ ChangePasswordSubmit
    \/ \E ok \in BOOLEAN : ChangePasswordResponse(ok)
    \/ ChangePasswordNavigate

SpecAuthOneTab == InitAuth /\ [][NextAuthOneTab]_vars

\* C24 (as claimed): in the tenant SPA, whenever the auth store says
\* isAuthenticated, an access_token is present in localStorage: this holds
\* after any sequence of login, logout, checkAuth and password change.
C24_AuthenticatedHasToken ==
    (app = "tenant" /\ store.isAuthenticated) => ls.access_token # NoToken

(***************************************************************************)
(* The paged lists: the total each service computes from one page of       *)
(* results, and the antd Table pagination that is driven by it.            *)
(***************************************************************************)
\* lists whose service estimates the total from the page
EstimatingLists == {"talentPool", "users", "reports"}

\* lists whose service reports the length of the page as total
LengthLists == {"tenants", "filterBox"}

\* the sizes the size changer offers; the first one is the initial size
PageSizes == 2..MaxPageSize

\* the rows the backend returns for skip and limit when it holds n rows
RowsReturned(n, skip, limit) ==
    IF n - skip <= 0 THEN 0
    ELSE IF n - skip < limit THEN n - skip ELSE limit

EstimatedTotalNoNextPage(page, pageSize, length) ==
    (page - 1) * pageSize + length

\* getTalentPool, getUsers, getReports: hasMore ? page * pageSize + 1
\*                                              : (page - 1) * pageSize + length
EstimatedTotal(page, pageSize, length) ==
    LET hasMore == length = pageSize
    IN  IF hasMore THEN page * pageSize + 1
        ELSE (page - 1) * pageSize + length

\* getTenants, getFilterBox: total: response.data.length
LengthTotal(page, pageSize, length) == length

\* the service call of a list: skip and limit are sent, items and total
\* come back
GetPage(list, rows, page, pageSize) ==
    LET skip == (page - 1) * pageSize
        length == RowsReturned(rows, skip, pageSize)
    IN  [items |-> length,
         total |-> IF list \in EstimatingLists
                   THEN EstimatedTotal(page, pageSize, length)
                   ELSE LengthTotal(page, pageSize, length)]

\* the last page the pagination offers for total and pageSize
LastPage(total, pageSize) == (total + pageSize - 1) \div pageSize

\* the page state after the list was loaded for page and pageSize
Loaded(page, pageSize) ==
    LET r == GetPage(pager.list, pager.rows, page, pageSize)
    IN  [pager EXCEPT !.page = page, !.pageSize = pageSize,
                      !.items = r.items, !.total = r.total, !.loaded = TRUE]

InitPage ==
    /\ NonPageOff
    /\ \E list \in EstimatingLists \cup LengthLists, n \in 0..MaxRows :
          \* the page opens on page 1 with the smallest size
          pager = [NoPager EXCEPT !.list = list, !.rows = n, !.pageSize = 2]

\* the effect that loads the list when the page is opened
LoadList ==
    /\ pager.list # "none"
    /\ ~pager.loaded
    /\ pager' = Loaded(pager.page, pager.pageSize)
    /\ UNCHANGED nonPageVars

\* pagination.onChange: the user picks one of the pages offered; the
\* effect loads it
GoToPage(p) ==
    /\ pager.loaded
    /\ p \in 1..LastPage(pager.total, pager.pageSize)
    /\ p # pager.page
    /\ pager' = Loaded(p, pager.pageSize)
    /\ UNCHANGED nonPageVars

\* pagination.onChange through the size changer: the current page is kept
\* unless the new size leaves fewer pages; the effect loads the page
ChangePageSize(size) ==
    /\ pager.loaded
    /\ size # pager.pageSize
    /\ LET last == LastPage(pager.total, size)
           page == IF pager.total > 0 /\ pager.page > last THEN last ELSE pager.page
       IN  pager' = Loaded(page, size)
    /\ UNCHANGED nonPageVars

NextPage ==
    \/ LoadList
    \/ \E p \in 1..MaxRows : GoToPage(p)
    \/ \E size \in PageSizes : ChangePageSize(size)

SpecPage == InitPage /\ [][NextPage]_vars

\* C25: for the talent-pool, tenant-user and report lists the total
\* computed from a page is greater than page * pageSize exactly when the
\* page came back full, equals (page - 1) * pageSize + the rows returned
\* when it came back short, and is never smaller than the number of rows
\* shown up to and including that page.
C25_EstimatedTotal ==
    (pager.loaded /\ pager.list \in EstimatingLists) =>
       /\ pager.total > pager.page * pager.pageSize <=> pager.items = pager.pageSize
       /\ pager.items < pager.pageSize =>
             pager.total = (pager.page - 1) * pager.pageSize + pager.items
       /\ pager.total >= (pager.page - 1) * pager.pageSize + pager.items

\* the second page of the report list came back full and a third page is
\* offered
C25_Witness ==
    /\ pager.loaded
    /\ pager.list = "reports"
    /\ pager.page = 2
    /\ pager.items = pager.pageSize
    /\ pager.total = 2 * pager.pageSize + 1
    /\ pager.rows > 2 * pager.pageSize

\* C26 (as claimed): in the admin tenant list and in the filter box, when
\* the backend holds more rows than the pages shown so far, the total
\* reported for the page lets the user go on to the following page.
C26_AllRowsReachable ==
    (pager.loaded /\ pager.list \in LengthLists
        /\ pager.rows > pager.page * pager.pageSize)
       => LastPage(pager.total, pager.pageSize) > pager.page

(***************************************************************************)
(* The filter rule page: buildRuleConfig, handleEdit and handleSubmit of   *)
(* FilterRulesSimple.                                                      *)
(***************************************************************************)
RuleTypes == {"education", "experience", "age", "skill", "custom"}

\* the characters typed into the skills field
SkillChars == {"a", ",", " "}

\* the texts typed into the skills field (required: not empty)
SkillTexts == UNION {[1..n -> SkillChars] : n \in 1..MaxSkillsLen}

\* String.prototype.trim
Trim(t) == Strip(t)

\* String.prototype.split(',')
RECURSIVE SplitComma(_)
SplitComma(t) ==
    IF \E i \in 1..Len(t) : t[i] = ","
    THEN LET i == CHOOSE k \in 1..Len(t) :
                     t[k] = "," /\ \A j \in 1..(k - 1) : t[j] # ","
         IN  <<SubSeq(t, 1, i - 1)>> \o SplitComma(SubSeq(t, i + 1, Len(t)))
    ELSE <<t>>

\* Array.prototype.join(', ')
RECURSIVE JoinComma(_)
JoinComma(arr) ==
    IF arr = << >> THEN << >>
    ELSE IF Len(arr) = 1 THEN arr[1]
    ELSE arr[1] \o <<",", " ">> \o JoinComma(Tail(arr))

\* values.skills.split(',').map(s => s.trim())
SkillsOfText(t) == LET parts == SplitComma(t) IN [i \in 1..Len(parts) |-> Trim(parts[i])]

\* x || d for a string of the form
OrDefault(x, d) == IF x = "undefined" THEN d ELSE x

\* buildRuleConfig(values, ruleType)
BuildRuleConfig(values, type) ==
    CASE type = "education" ->
           [NoRuleConfig EXCEPT !.degree = values.degree,
                                !.operator = OrDefault(values.operator, ">=")]
      [] type = "experience" ->
           [NoRuleConfig EXCEPT !.years = IF values.years \in {-1, 0} THEN 0 ELSE values.years,
                                !.operator = OrDefault(values.operator, ">=")]
      [] type = "age" ->
           [NoRuleConfig EXCEPT !.min_age = values.min_age,
                                !.max_age = values.max_age]
      [] type = "skill" ->
           [NoRuleConfig EXCEPT !.skills = IF values.skills \notin {NoText, << >>}
                                           THEN SkillsOfText(values.skills)
                                           ELSE << >>,
                                !.match_type = OrDefault(values.match_type, "any")]
      [] OTHER -> NoRuleConfig

\* handleEdit: the form values for a stored rule
EditFormValues(r) ==
    LET config == r.rule_config
    IN  CASE r.rule_type = "education" ->
               [ResetForm EXCEPT !.degree = config.degree,
                                 !.operator = OrDefault(config.operator, ">=")]
          [] r.rule_type = "experience" ->
               [ResetForm EXCEPT !.years = config.years,
                                 !.operator = OrDefault(config.operator, ">=")]
          [] r.rule_type = "age" ->
               [ResetForm EXCEPT !.min_age = config.min_age,
                                 !.max_age = config.max_age]
          [] r.rule_type = "skill" ->
               [ResetForm EXCEPT !.skills = IF config.skills # NoSkills
                                            THEN JoinComma(config.skills)
                                            ELSE << >>,
                                 !.match_type = OrDefault(config.match_type, "any")]
          [] OTHER -> ResetForm

\* the values the user can put into the form for a rule of the given type
\* ("bachelor" and "master" stand for two of the options of the degree Select)
FormInputs(type) ==
    CASE type = "education" ->
           {[ResetForm EXCEPT !.degree = d, !.operator = o] :
               d \in {"bachelor", "master"}, o \in {">=", "==", "<="}}
      [] type = "experience" ->
           {[ResetForm EXCEPT !.years = y, !.operator = o] :
               y \in {0, 3}, o \in {">=", "=="}}
      [] type = "age" ->
           {[ResetForm EXCEPT !.min_age = a, !.max_age = b] :
               a \in {18, 25}, b \in {45}}
      [] type = "skill" ->
           {[ResetForm EXCEPT !.skills = t, !.match_type = m] :
               t \in SkillTexts, m \in {"any", "all"}}
      [] OTHER -> {ResetForm}

\* the required fields of the form are filled
FormValid(values, type) ==
    CASE type = "education" -> values.degree # "undefined"
      [] type = "experience" -> values.years # -1
      [] type = "age" -> values.min_age # -1 /\ values.max_age # -1
      [] type = "skill" -> values.skills \notin {NoText, << >>}
      [] OTHER -> TRUE

InitRule ==
    /\ NonRuleOff
    /\ rule = NoRule
    /\ editingRule = FALSE
    /\ ruleType = "education"
    /\ ruleForm = ResetForm

\* "create rule", the form is filled for a type the Select offers, and
\* handleSubmit creates the rule
RuleCreateSubmit(type, values) ==
    /\ rule = NoRule
    /\ ~editingRule
    /\ type \in RuleTypes \ {"custom"}
    /\ values \in FormInputs(type)
    /\ FormValid(values, type)
    /\ rule' = [rule_type |-> type, rule_config |-> BuildRuleConfig(values, type)]
    /\ UNCHANGED <<editingRule, ruleType, ruleForm>>
    /\ UNCHANGED nonRuleVars

\* a custom rule of the tenant, created with a JSON rule_config
CustomRuleStored ==
    /\ rule = NoRule
    /\ ~editingRule
    /\ rule' = [rule_type |-> "custom",
                rule_config |-> [NoRuleConfig EXCEPT !.custom = "field"]]
    /\ UNCHANGED <<editingRule, ruleType, ruleForm>>
    /\ UNCHANGED nonRuleVars

\* handleEdit(rule)
HandleEdit ==
    /\ rule # NoRule
    /\ ~editingRule
    /\ editingRule' = TRUE
    /\ ruleType' = rule.rule_type
    /\ ruleForm' = EditFormValues(rule)
    /\ UNCHANGED rule
    /\ UNCHANGED nonRuleVars

\* the user changes the values of the open form
RuleFormChange(values) ==
    /\ editingRule
    /\ values \in FormInputs(ruleType)
    /\ values # ruleForm
    /\ ruleForm' = values
    /\ UNCHANGED <<rule, editingRule, ruleType>>
    /\ UNCHANGED nonRuleVars

\* handleSubmit with editingRule: the form passed validation, the rule is
\* updated with the rebuilt rule_config, the form is reset
RuleEditSubmit ==
    /\ editingRule
    /\ FormValid(ruleForm, ruleType)
    /\ rule' = [rule_type |-> ruleType,
                rule_config |-> BuildRuleConfig(ruleForm, ruleType)]
    /\ editingRule' = FALSE
    /\ ruleType' = "education"
    /\ ruleForm' = ResetForm
    /\ UNCHANGED nonRuleVars

\* Modal onCancel
RuleEditCancel ==
    /\ editingRule
    /\ editingRule' = FALSE
    /\ ruleType' = "education"
    /\ ruleForm' = ResetForm
    /\ UNCHANGED rule
    /\ UNCHANGED nonRuleVars

\* handleDelete
RuleDelete ==
    /\ rule # NoRule
    /\ ~editingRule
    /\ rule' = NoRule
    /\ UNCHANGED <<editingRule, ruleType, ruleForm>>
    /\ UNCHANGED nonRuleVars

NextRule ==
    \/ \E type \in RuleTypes : \E values \in FormInputs(type) : RuleCreateSubmit(type, values)
    \/ CustomRuleStored
    \/ HandleEdit
    \/ \E values \in FormInputs(ruleType) : RuleFormChange(values)
    \/ RuleEditSubmit
    \/ RuleEditCancel
    \/ RuleDelete

SpecRule == InitRule /\ [][NextRule]_vars

\* C27 (as claimed): opening a filter rule in the edit form and saving it
\* without changing anything leaves its rule_config unchanged, for every
\* rule type: the config buildRuleConfig rebuilds from the form values
\* loaded by handleEdit equals the stored config.
C27_EditRoundTrip ==
    rule # NoRule =>
       BuildRuleConfig(EditFormValues(rule), rule.rule_type) = rule.rule_config

(***************************************************************************)
(* ExportService: exportReportToWord and batchExportReports.               *)
(***************************************************************************)
\* the match ids of the reports
ReportIds == 1..MaxReports

\* the lists batchExportReports is called with
ReportLists == UNION {[1..n -> ReportIds] : n \in 0..MaxReports}

\* a loop that catches the error of one export and goes on
LoopGoesOnAfterError(ok, pos, n) ==
    IF pos < n THEN "posting" ELSE "resolved"

\* for (const report of reports) { await this.exportReportToWord(report) }:
\* where the loop is after the export at pos has settled
LoopAfterExport(ok, pos, n) ==
    IF ~ok THEN "rejected"
    ELSE IF pos < n THEN "posting"
    ELSE "resolved"

InitExport ==
    /\ NonExportOff
    /\ reports = << >>
    /\ exportPhase = "idle"
    /\ exportPos = 0
    /\ posted = << >>
    /\ downloaded = << >>
    /\ thrown = 0

\* batchExportReports(rs): the loop starts and exportReportToWord posts
\* the first report; an empty list resolves at once
BatchExportReports(rs) ==
    /\ exportPhase = "idle"
    /\ rs \in ReportLists
    /\ reports' = rs
    /\ IF rs = << >>
       THEN /\ exportPhase' = "resolved"
            /\ UNCHANGED <<exportPos, posted>>
       ELSE /\ exportPhase' = "posting"
            /\ exportPos' = 1
            /\ posted' = <<rs[1]>>
    /\ UNCHANGED <<downloaded, thrown>>
    /\ UNCHANGED nonExportVars

\* exportReportToWord: the POST of the report at exportPos settles. On a
\* response the file is downloaded (link.click()); on an error the catch
\* block throws and the awaiting loop ends with that error. After a
\* download the loop posts the next report, if any.
ExportReportToWord(ok) ==
    /\ exportPhase = "posting"
    /\ exportPhase' = LoopAfterExport(ok, exportPos, Len(reports))
    /\ downloaded' = IF ok THEN Append(downloaded, reports[exportPos]) ELSE downloaded
    /\ IF exportPhase' = "posting"
       THEN /\ exportPos' = exportPos + 1
            /\ posted' = Append(posted, reports[exportPos + 1])
       ELSE UNCHANGED <<exportPos, posted>>
    /\ thrown' = IF exportPhase' = "rejected" THEN exportPos ELSE thrown
    /\ UNCHANGED reports
    /\ UNCHANGED nonExportVars

NextExport ==
    \/ \E rs \in ReportLists : BatchExportReports(rs)
    \/ \E ok \in BOOLEAN : ExportReportToWord(ok)

SpecExport == InitExport /\ [][NextExport]_vars

\* the exports sent and the downloads made are the first reports of the
\* list, in list order, each once, and at most one export is unfinished
C28_InOrder ==
    /\ Len(posted) <= Len(reports)
    /\ posted = SubSeq(reports, 1, Len(posted))
    /\ downloaded = SubSeq(reports, 1, Len(downloaded))
    /\ Len(posted) - Len(downloaded) \in {0, 1}
    /\ (exportPhase = "posting") => Len(posted) = Len(downloaded) + 1
    /\ (exportPhase = "resolved") => downloaded = reports /\ thrown = 0

\* after a failure the error of the failing report is with the caller, the
\* reports before it are downloaded, it and the later ones are not, and it
\* was posted once
C28_StoppedAtFailure ==
    (thrown # 0 \/ exportPhase = "rejected") =>
       /\ exportPhase = "rejected"
       /\ thrown \in 1..Len(reports)
       /\ downloaded = SubSeq(reports, 1, thrown - 1)
       /\ posted = SubSeq(reports, 1, thrown)

\* a step: an export starts only when the one before it has been
\* downloaded, and nothing happens after the failure
C28_Step ==
    /\ (posted' # posted) =>
          /\ Len(posted') = Len(posted) + 1
          /\ Len(downloaded') = Len(posted)
    /\ (exportPhase = "rejected") => UNCHANGED exportVars

\* C28: batchExportReports exports the reports one at a time in list
\* order, the next export starting only after the previous one has
\* finished, and it stops at the first failure without retrying: the
\* reports before the failing one have been downloaded, the failing one
\* and all later ones are not, and the error is thrown to the caller.
C28_BatchExportSequential ==
    /\ [](C28_InOrder /\ C28_StoppedAtFailure)
    /\ [][C28_Step]_vars

\* the second of three reports has failed: the first is downloaded, the
\* third was never sent
C28_Witness ==
    /\ Len(reports) = 3
    /\ exportPhase = "rejected"
    /\ thrown = 2
    /\ downloaded = <<reports[1]>>
    /\ Len(posted) = 2

====
